---- MODULE Spec2Model ----
(***************************************************************************)
(* UDP telemetry channel of doubles: the wire codec, the Sender            *)
(* (UdpDoubleSender) and the Receiver (UdpDoubleReceiver).                 *)
(*                                                                         *)
(* Representation of machine words.  The model checker's integers are      *)
(* 32-bit signed, so                                                       *)
(*   - a 16-bit word is the natural number 0..65535;                       *)
(*   - a 32-bit word (uint32_t or int32_t) is the integer in               *)
(*     -2^31 .. 2^31-1 that has the same 32 bits (two's complement);       *)
(*   - a 64-bit word (uint64_t, int64_t, or the bits of a double) is the   *)
(*     tuple of its eight base-256 digits, most significant first.         *)
(* A datagram and a buffer are sequences of bytes (0..255); offsets are    *)
(* those of the C++ code (0-based), TLA+ indices are offset + 1.           *)
(***************************************************************************)
EXTENDS Integers, Sequences, FiniteSets, TLC

(***************************************************************************)
(* Program constants                                                       *)
(***************************************************************************)
MAGIC_UDPD == 1430540356
VERSION_1 == 1
HEADER_BYTES == 20
MAGIC == 1430540356
VERSION == 1
Sender_HEADER_BYTES == 20
DEFAULT_MAX_UDP_PAYLOAD == 1400
INT64_MIN == <<128, 0, 0, 0, 0, 0, 0, 0>>
INVALID_SOCKET == 0

(***************************************************************************)
(* Words and bytes                                                         *)
(***************************************************************************)
Reverse(s) == [i \in 1..Len(s) |-> s[Len(s) + 1 - i]]

\* the 32-bit word whose digits, most significant first, are d
Word32(d) ==
    (IF d[1] >= 128 THEN d[1] - 256 ELSE d[1]) * 16777216
        + d[2] * 65536 + d[3] * 256 + d[4]

\* the digits, most significant first, of a 32-bit and of a 16-bit word
Digits32(x) ==
    << (x \div 16777216) % 256, (x \div 65536) % 256, (x \div 256) % 256, x % 256 >>

Digits16(x) == << (x \div 256) % 256, x % 256 >>

\* a small signed integer widened to int64_t (sign extension)
Int64(v) ==
    LET s == IF v < 0 THEN 255 ELSE 0
    IN  <<s, s, s, s>> \o Digits32(v)

\* int64_t < 0: the sign bit
IsNegative64(b) == b[1] >= 128

\* the bytes of a word as they lie in the host's memory (what memcpy copies)
Mem(hostLE, digits) == IF hostLE THEN Reverse(digits) ELSE digits

(***************************************************************************)
(* Receiver: endian-aware readers (p + off in the code is buf, off here)   *)
(***************************************************************************)
read16(buf, off, e) ==
    IF e = "Big"
    THEN buf[off + 1] * 256 + buf[off + 2]
    ELSE buf[off + 2] * 256 + buf[off + 1]

\* read32 that reads big-endian whatever the endianness configured
read32BigOnly(buf, off, e) ==
    Word32(<<buf[off + 1], buf[off + 2], buf[off + 3], buf[off + 4]>>)

read32(buf, off, e) ==
    IF e = "Big"
    THEN Word32(<<buf[off + 1], buf[off + 2], buf[off + 3], buf[off + 4]>>)
    ELSE Word32(<<buf[off + 4], buf[off + 3], buf[off + 2], buf[off + 1]>>)

\* v = (v << 8) | p[i], i = 0..7 (Big) or i = 7..0 (Little): the digits of v,
\* most significant first, are the bytes in the order the loop visits them
read64(buf, off, e) ==
    IF e = "Big"
    THEN [i \in 1..8 |-> buf[off + i]]
    ELSE [i \in 1..8 |-> buf[off + 9 - i]]

\* memcpy of the 64 bits into a double: the double is its bit pattern
readDouble(buf, off, e) == read64(buf, off, e)

(***************************************************************************)
(* Sender: packing helpers.  hostLE is isLittleEndian_() of the host.      *)
(***************************************************************************)
bswap64_(x) == Reverse(x)

hostToBE64NoSwap(hostLE, v) == v

hostToBE64_(hostLE, v) == IF hostLE THEN bswap64_(v) ELSE v

htons(hostLE, v) == IF hostLE THEN (v % 256) * 256 + (v \div 256) ELSE v

htonl(hostLE, u) == IF hostLE THEN Word32(Reverse(Digits32(u))) ELSE u

writeBE16_(hostLE, v) == Mem(hostLE, Digits16(htons(hostLE, v)))

writeBE32u_(hostLE, u) == Mem(hostLE, Digits32(htonl(hostLE, u)))

\* memcpy int32_t -> uint32_t keeps the bits: the same 32-bit word
writeBE32_fromBits_(hostLE, s) == writeBE32u_(hostLE, s)

writeBE64_fromBits_(hostLE, s) == Mem(hostLE, hostToBE64_(hostLE, s))

writeDoubleBE_(hostLE, d) == Mem(hostLE, hostToBE64_(hostLE, d))

\* the bytes of consecutive 8-byte fields, in order
Flatten(ss) == [k \in 1..(Len(ss) * 8) |-> ss[((k - 1) \div 8) + 1][((k - 1) % 8) + 1]]

\* sendWithSeq, the packing part: the first 20 + n*8 bytes of buffer_
\* after the header and the payload are written, n = (uint16_t)count
PackFrame(hostLE, count, seq, timestampNanos, data) ==
    LET n == count % 65536
    IN  writeBE32u_(hostLE, MAGIC)
            \o writeBE16_(hostLE, VERSION)
            \o writeBE16_(hostLE, n)
            \o writeBE32_fromBits_(hostLE, seq)
            \o writeBE64_fromBits_(hostLE, timestampNanos)
            \o Flatten([i \in 1..n |-> writeDoubleBE_(hostLE, data[i])])

\* encode(frame, little) of the wire codec: the same layout with every field
\* written least significant byte first
encodeLittle(count, seq, timestampNanos, data) ==
    LET n == count % 65536
    IN  Reverse(Digits32(MAGIC))
            \o Reverse(Digits16(VERSION))
            \o Reverse(Digits16(n))
            \o Reverse(Digits32(seq))
            \o Reverse(timestampNanos)
            \o Flatten([i \in 1..n |-> Reverse(data[i])])

\* encode(frame, E): the Sender's packing for Big, encodeLittle for Little
encode(hostLE, e, count, seq, timestampNanos, data) ==
    IF e = "Big"
    THEN PackFrame(hostLE, count, seq, timestampNanos, data)
    ELSE encodeLittle(count, seq, timestampNanos, data)

(***************************************************************************)
(* Receiver: validation and decoding of one datagram (run, after recvfrom) *)
(***************************************************************************)
\* struct Packet, default-constructed
DefaultPacket == [seq |-> 0, timestampNanos |-> Int64(0), data |-> <<>>]

\* the checks of run() with a datagram required to end where its declared
\* payload ends
ValidExactLength(buf, received, e) ==
    /\ received >= HEADER_BYTES
    /\ read32(buf, 0, e) = MAGIC_UDPD
    /\ read16(buf, 4, e) = VERSION_1
    /\ HEADER_BYTES + read16(buf, 6, e) * 8 = received

\* the checks of run(): length, magic, version, declared payload length
ValidNoVersion(buf, received, e) ==
    /\ received >= HEADER_BYTES
    /\ read32(buf, 0, e) = MAGIC_UDPD
    /\ HEADER_BYTES + read16(buf, 6, e) * 8 <= received

Valid(buf, received, e) ==
    /\ received >= HEADER_BYTES
    /\ read32(buf, 0, e) = MAGIC_UDPD
    /\ read16(buf, 4, e) = VERSION_1
    /\ HEADER_BYTES + read16(buf, 6, e) * 8 <= received

\* Packet pkt as run() fills it in from an accepted datagram
Decode(buf, e) ==
    LET count == read16(buf, 6, e)
    IN  [seq |-> read32(buf, 8, e),
         timestampNanos |-> read64(buf, 12, e),
         data |-> [i \in 1..count |-> readDouble(buf, HEADER_BYTES + (i - 1) * 8, e)]]

(***************************************************************************)
(* Bounds of the model                                                     *)
(***************************************************************************)
NumCallers == 1
NumReaders == 2
MaxQueue == 1
MaxHandles == 2

(***************************************************************************)
(* Datagrams the network may deliver to the Receiver                       *)
(***************************************************************************)
\* bit patterns of doubles: 1.5, a quiet NaN, -0.0, +Infinity, -Infinity and
\* a pattern whose eight bytes all differ
Dbl_1_5 == <<63, 248, 0, 0, 0, 0, 0, 0>>
Dbl_NaN == <<127, 248, 0, 0, 0, 0, 0, 1>>
Dbl_NegZero == <<128, 0, 0, 0, 0, 0, 0, 0>>
Dbl_PosInf == <<127, 240, 0, 0, 0, 0, 0, 0>>
Dbl_NegInf == <<255, 240, 0, 0, 0, 0, 0, 0>>
Dbl_Mixed == <<1, 2, 3, 4, 5, 6, 7, 8>>

\* the frames the peer sends: sequences 5, 3, 9 and a second, different
\* frame that also carries sequence 5
Frame5 == [seq |-> 5, timestampNanos |-> Int64(1000), data |-> <<Dbl_1_5>>]
Frame3 == [seq |-> 3, timestampNanos |-> Int64(2000), data |-> <<Dbl_NaN>>]
Frame9 == [seq |-> 9, timestampNanos |-> Int64(3000), data |-> <<Dbl_Mixed>>]
Frame5Again == [seq |-> 5, timestampNanos |-> Int64(4000), data |-> <<Dbl_NegZero>>]

Frames == {Frame5, Frame3, Frame9, Frame5Again}

\* the datagram that carries frame f in endianness e
Wire(f, e) == encode(TRUE, e, Len(f.data), f.seq, f.timestampNanos, f.data)

WellFormed(e) == {Wire(f, e) : f \in Frames}

\* the frame the peer sent in the well-formed datagram d
SentFrame(d, e) == CHOOSE f \in Frames : Wire(f, e) = d

\* malformed datagrams: 19 bytes; the other endianness (its magic reads
\* 0x44504455); version 2; count = 2 declared with one double present
WireShort(e) == SubSeq(Wire(Frame9, e), 1, 19)
WireBadMagic(e) == Wire(Frame9, IF e = "Big" THEN "Little" ELSE "Big")
WireBadVersion(e) ==
    [Wire(Frame9, e) EXCEPT ![5] = IF e = "Big" THEN 0 ELSE 2,
                        ![6] = IF e = "Big" THEN 2 ELSE 0]
WireTruncated(e) ==
    [Wire(Frame9, e) EXCEPT ![7] = IF e = "Big" THEN 0 ELSE 2,
                        ![8] = IF e = "Big" THEN 2 ELSE 0]

Malformed(e) == {WireShort(e), WireBadMagic(e), WireBadVersion(e), WireTruncated(e)}

Datagrams(e) == WellFormed(e) \cup Malformed(e)

(***************************************************************************)
(* State                                                                   *)
(***************************************************************************)
VARIABLES
    \* UdpDoubleReceiver
    endian_,          \* configured endianness
    running_,         \* std::atomic<bool>
    sockfd_,          \* SOCKET, INVALID_SOCKET or a handle
    wsaInitialized_,
    latest_,          \* Packet, guarded by dataMutex_
    hasData_,         \* guarded by dataMutex_
    dataMutex_,       \* who holds the mutex: Unlocked, ByLoop or ByCaller(c)
    \* the background thread executing run()
    rpc,              \* where run() is; "none": no thread, "done": run() returned
    rx,               \* result of the last recvfrom: received, error, recvBuffer_
    pkt,              \* the local Packet pkt
    \* the thread that calls start() and stop()
    mpc,              \* "idle" or where stop() is
    \* threads calling getLatest
    cpc, out, ret,
    \* operating system and network
    openSocks,        \* socket handles that are open
    boundSock,        \* the handle bound to the port, or INVALID_SOCKET
    queue,            \* how many datagrams wait in the bound socket
    \* history, for stating properties
    lastValid,        \* the last well-formed datagram recvfrom returned
    stopAfter,        \* stop() was called before run() finished with lastValid
    lastPublished,    \* the Packet run() has stored last, <<>> before the first
    pubDgram          \* the datagram lastPublished was decoded from

rvars == <<endian_, running_, sockfd_, wsaInitialized_, latest_, hasData_,
           dataMutex_, rpc, rx, pkt, mpc, cpc, out, ret, openSocks,
           boundSock, queue, lastValid, stopAfter, lastPublished, pubDgram>>

VARIABLES
    \* the process that uses UdpDoubleSender objects (one thread)
    hostLE,           \* isLittleEndian_() of the host
    now,              \* steady_clock::now().time_since_epoch(), in nanoseconds
    alive,            \* alive[i]: object i is constructed and not destroyed
    sock_,            \* per object: INVALID_SOCKET or a handle
    maxDoubles_,
    seq_,
    tsOffset_,
    connect_,
    spc,              \* "idle", or "in_send": sendWithSeq has been entered
    call,             \* the arguments and the outcome of the last send call
    aborted,          \* the process was terminated by a trap
    sOpen,            \* socket handles of the process that are open
    win32,            \* the build is the one for Windows (_WIN32)
    winsock_,         \* per object: winsock_ points to a WinsockRAII; at 0: a
                      \* WinsockRAII that a throwing constructor left behind
    destAddr_,        \* per object: the resolved address (its place in the
                      \* resolver's list) that was copied in, 0 when zeroed
    ctor,             \* the constructor call that is in createAndConfigureSocket_
    \* history, for stating properties
    cfg,              \* per object: the constructor arguments it got
    movedTo,          \* the object the last move filled, 0 when it is gone
    closed,           \* per object: "closed" once close() was called on it,
                      \* "reopened" when operator= then gave it an open socket
    closedTwice,      \* a handle was closed that was not open
    \* the wire codec, applied to one frame
    codec

svars == <<hostLE, now, alive, sock_, maxDoubles_, seq_, tsOffset_, connect_,
           spc, call, aborted, sOpen, cfg, movedTo, closed, closedTwice, win32,
           winsock_, destAddr_, ctor, codec>>

vars == <<rvars, svars>>

SOCKET_ERROR == -1
Unlocked == <<"free", 0>>
ByLoop == <<"loop", 0>>
ByCaller(c) == <<"caller", c>>
NoRx == [received |-> 0, err |-> "none", buf |-> <<>>]

(***************************************************************************)
(* UdpDoubleReceiver::UdpDoubleReceiver                                    *)
(***************************************************************************)
ReceiverConstructed(e, n) ==
    /\ endian_ = e
    /\ running_ = FALSE
    /\ sockfd_ = INVALID_SOCKET
    /\ wsaInitialized_ = FALSE
    /\ latest_ = DefaultPacket
    /\ hasData_ = FALSE
    /\ dataMutex_ = Unlocked
    /\ rpc = "none"
    /\ rx = NoRx
    /\ pkt = DefaultPacket
    /\ mpc = "idle"
    /\ cpc = [c \in 1..n |-> "idle"]
    /\ out = [c \in 1..n |-> DefaultPacket]
    /\ ret = [c \in 1..n |-> "none"]
    /\ openSocks = {}
    /\ boundSock = INVALID_SOCKET
    /\ queue = 0
    /\ lastValid = <<>>
    /\ stopAfter = FALSE
    /\ lastPublished = <<>>
    /\ pubDgram = <<>>

InitReceiver == \E e \in {"Big", "Little"} : ReceiverConstructed(e, NumCallers)

\* socket(): the system hands out the lowest handle that is not open
NewSocket(open) == CHOOSE h \in (1..MaxHandles) \ open : \A g \in (1..MaxHandles) \ open : h <= g

(***************************************************************************)
(* UdpDoubleReceiver::start.  No other thread reads what start() writes    *)
(* before it launches the thread, so each outcome is one step.             *)
(***************************************************************************)
\* start() without the test of running_
StartRunningLaunches ==
    /\ mpc = "idle"
    /\ running_
    /\ openSocks # 1..MaxHandles
    /\ sockfd_' = NewSocket(openSocks)
    /\ openSocks' = openSocks \cup {NewSocket(openSocks)}
    /\ rpc' = "while"
    /\ UNCHANGED <<svars, endian_, running_, wsaInitialized_, latest_, hasData_,
                   dataMutex_, rx, pkt, mpc, cpc, out, ret, boundSock, queue,
                   lastValid, stopAfter, lastPublished, pubDgram>>

\* if (running_) return true
StartAlreadyRunning ==
    /\ mpc = "idle"
    /\ running_
    /\ UNCHANGED <<svars, endian_, running_, sockfd_, wsaInitialized_, latest_, hasData_,
                   dataMutex_, rpc, rx, pkt, mpc, cpc, out, ret, openSocks, boundSock, queue, lastValid, stopAfter, lastPublished, pubDgram>>

\* WSAStartup fails
StartWsaFail ==
    /\ mpc = "idle"
    /\ ~running_
    /\ UNCHANGED <<svars, endian_, running_, sockfd_, wsaInitialized_, latest_, hasData_,
                   dataMutex_, rpc, rx, pkt, mpc, cpc, out, ret, openSocks, boundSock, queue, lastValid, stopAfter, lastPublished, pubDgram>>

\* socket() fails: sockfd_ = INVALID_SOCKET
StartSocketFail ==
    /\ mpc = "idle"
    /\ ~running_
    /\ wsaInitialized_' = TRUE
    /\ sockfd_' = INVALID_SOCKET
    /\ UNCHANGED <<svars, endian_, running_, latest_, hasData_,
                   dataMutex_, rpc, rx, pkt, mpc, cpc, out, ret, openSocks, boundSock, queue, lastValid, stopAfter, lastPublished, pubDgram>>

\* start() that launches the thread although bind() failed
StartBindFailLaunches ==
    /\ mpc = "idle"
    /\ ~running_
    /\ openSocks # 1..MaxHandles
    /\ wsaInitialized_' = TRUE
    /\ sockfd_' = NewSocket(openSocks)
    /\ openSocks' = openSocks \cup {NewSocket(openSocks)}
    /\ running_' = TRUE
    /\ rpc' = "while"
    /\ UNCHANGED <<svars, endian_, latest_, hasData_,
                   dataMutex_, rx, pkt, mpc, cpc, out, ret,
                   boundSock, queue, lastValid, stopAfter, lastPublished, pubDgram>>

\* inet_pton() or bind() fails: the new socket stays open in sockfd_
StartBindFail ==
    /\ mpc = "idle"
    /\ ~running_
    /\ openSocks # 1..MaxHandles
    /\ wsaInitialized_' = TRUE
    /\ sockfd_' = NewSocket(openSocks)
    /\ openSocks' = openSocks \cup {NewSocket(openSocks)}
    /\ UNCHANGED <<svars, endian_, running_, latest_, hasData_,
                   dataMutex_, rpc, rx, pkt, mpc, cpc, out, ret,
                   boundSock, queue, lastValid, stopAfter, lastPublished, pubDgram>>

\* StartOk that also resets the stored Packet
StartOkResetsData ==
    /\ mpc = "idle"
    /\ ~running_
    /\ openSocks # 1..MaxHandles
    /\ wsaInitialized_' = TRUE
    /\ sockfd_' = NewSocket(openSocks)
    /\ openSocks' = openSocks \cup {NewSocket(openSocks)}
    /\ boundSock' = NewSocket(openSocks)
    /\ queue' = 0
    /\ running_' = TRUE
    /\ rpc' = "while"
    /\ hasData_' = FALSE
    /\ latest_' = DefaultPacket
    /\ UNCHANGED <<svars, endian_, dataMutex_, rx, pkt, mpc, cpc, out,
                   ret, lastValid, stopAfter, lastPublished, pubDgram>>

\* every call succeeds: running_ = true and the thread is launched
StartOk ==
    /\ mpc = "idle"
    /\ ~running_
    /\ openSocks # 1..MaxHandles
    /\ wsaInitialized_' = TRUE
    /\ sockfd_' = NewSocket(openSocks)
    /\ openSocks' = openSocks \cup {NewSocket(openSocks)}
    /\ boundSock' = NewSocket(openSocks)
    /\ queue' = 0
    /\ running_' = TRUE
    /\ rpc' = "while"
    /\ UNCHANGED <<svars, endian_, latest_, hasData_, dataMutex_, rx, pkt, mpc, cpc, out,
                   ret, lastValid, stopAfter, lastPublished, pubDgram>>

(***************************************************************************)
(* UdpDoubleReceiver::stop                                                 *)
(***************************************************************************)
\* if (!running_): close a half-started socket, WSACleanup, return
StopNotRunning ==
    /\ mpc = "idle"
    /\ ~running_
    /\ sockfd_' = INVALID_SOCKET
    /\ openSocks' = openSocks \ {sockfd_}
    /\ boundSock' = IF boundSock = sockfd_ THEN INVALID_SOCKET ELSE boundSock
    /\ wsaInitialized_' = FALSE
    /\ UNCHANGED <<svars, endian_, running_, latest_, hasData_, dataMutex_, rpc, rx, pkt,
                   mpc, cpc, out, ret, queue, lastValid,
                   stopAfter, lastPublished, pubDgram>>

\* stop() that leaves running_ set
StopSignalNotSet ==
    /\ mpc = "idle"
    /\ running_
    /\ mpc' = "stop_close"
    /\ stopAfter' = TRUE
    /\ UNCHANGED <<svars, endian_, running_, sockfd_, wsaInitialized_, latest_, hasData_, dataMutex_,
                   rpc, rx, pkt, cpc, out, ret, openSocks, boundSock,
                   queue, lastValid, lastPublished, pubDgram>>

\* running_ = false
StopSignal ==
    /\ mpc = "idle"
    /\ running_
    /\ running_' = FALSE
    /\ mpc' = "stop_close"
    /\ stopAfter' = TRUE
    /\ UNCHANGED <<svars, endian_, sockfd_, wsaInitialized_, latest_, hasData_, dataMutex_,
                   rpc, rx, pkt, cpc, out, ret, openSocks, boundSock,
                   queue, lastValid, lastPublished, pubDgram>>

\* closesocket(sockfd_): the datagrams still queued in the socket are lost
StopCloseSocket ==
    /\ mpc = "stop_close"
    /\ openSocks' = openSocks \ {sockfd_}
    /\ boundSock' = IF boundSock = sockfd_ THEN INVALID_SOCKET ELSE boundSock
    /\ queue' = IF boundSock = sockfd_ THEN 0 ELSE queue
    /\ mpc' = "stop_inval"
    /\ UNCHANGED <<svars, endian_, running_, sockfd_, wsaInitialized_, latest_, hasData_,
                   dataMutex_, rpc, rx, pkt, cpc, out, ret, lastValid, stopAfter, lastPublished, pubDgram>>

\* sockfd_ = INVALID_SOCKET
StopInvalidate ==
    /\ mpc = "stop_inval"
    /\ sockfd_' = INVALID_SOCKET
    /\ mpc' = "stop_join"
    /\ UNCHANGED <<svars, endian_, running_, wsaInitialized_, latest_, hasData_,
                   dataMutex_, rpc, rx, pkt, cpc, out, ret, openSocks, boundSock, queue, lastValid, stopAfter, lastPublished, pubDgram>>

\* stop() that does not join the thread
StopWithoutJoin ==
    /\ mpc = "stop_join"
    /\ wsaInitialized_' = FALSE
    /\ mpc' = "idle"
    /\ UNCHANGED <<svars, endian_, running_, sockfd_, latest_, hasData_, rpc,
                   dataMutex_, rx, pkt, cpc, out, ret, openSocks, boundSock, queue, lastValid, stopAfter, lastPublished, pubDgram>>

\* receiverThread_.join() returns once run() has returned; WSACleanup
StopJoin ==
    /\ mpc = "stop_join"
    /\ rpc = "done"
    /\ rpc' = "none"
    /\ wsaInitialized_' = FALSE
    /\ mpc' = "idle"
    /\ UNCHANGED <<svars, endian_, running_, sockfd_, latest_, hasData_,
                   dataMutex_, rx, pkt, cpc, out, ret, openSocks, boundSock, queue, lastValid, stopAfter, lastPublished, pubDgram>>

(***************************************************************************)
(* The network: a datagram arrives at the bound socket.  Its bytes are     *)
(* whatever the peer sent: they are drawn when recvfrom hands it over.     *)
(***************************************************************************)
Deliver ==
    /\ boundSock # INVALID_SOCKET
    /\ queue < MaxQueue
    /\ queue' = queue + 1
    /\ UNCHANGED <<svars, endian_, running_, sockfd_, wsaInitialized_, latest_, hasData_,
                   dataMutex_, rpc, rx, pkt, mpc, cpc, out, ret, openSocks,
                   boundSock, lastValid, stopAfter, lastPublished, pubDgram>>

(***************************************************************************)
(* UdpDoubleReceiver::run, the background thread                           *)
(***************************************************************************)
\* while (running_)
LoopWhile ==
    /\ rpc = "while"
    /\ rpc' = IF running_ THEN "recv" ELSE "done"
    /\ UNCHANGED <<svars, endian_, running_, sockfd_, wsaInitialized_, latest_, hasData_,
                   dataMutex_, rx, pkt, mpc, cpc, out, ret, openSocks,
                   boundSock, queue, lastValid, stopAfter, lastPublished, pubDgram>>

\* recvfrom returns a datagram d of those in D that peers send: received = its
\* length, recvBuffer_ = its bytes
LoopRecvFrom(D) ==
    /\ rpc = "recv"
    /\ sockfd_ \in openSocks /\ sockfd_ = boundSock
    /\ queue > 0
    /\ queue' = queue - 1
    /\ \E d \in D :
        /\ rx' = [received |-> Len(d), err |-> "none", buf |-> d]
        /\ IF d \in WellFormed(endian_)
           THEN lastValid' = d /\ stopAfter' = ~running_
           ELSE UNCHANGED <<lastValid, stopAfter>>
    /\ rpc' = "chk"
    /\ UNCHANGED <<svars, endian_, running_, sockfd_, wsaInitialized_, latest_, hasData_,
                   dataMutex_, pkt, mpc, cpc, out, ret, openSocks,
                   boundSock, lastPublished, pubDgram>>

LoopRecvDatagram == LoopRecvFrom(Datagrams(endian_))

\* recvfrom returns SOCKET_ERROR with WSAEWOULDBLOCK: nothing is queued
LoopRecvWouldBlock ==
    /\ rpc = "recv"
    /\ sockfd_ \in openSocks /\ sockfd_ = boundSock
    /\ queue = 0
    /\ rx' = [received |-> SOCKET_ERROR, err |-> "wouldblock", buf |-> <<>>]
    /\ rpc' = "chk"
    /\ UNCHANGED <<svars, endian_, running_, sockfd_, wsaInitialized_, latest_, hasData_,
                   dataMutex_, pkt, mpc, cpc, out, ret, openSocks,
                   boundSock, queue, lastValid, stopAfter,
                   lastPublished, pubDgram>>

\* recvfrom returns SOCKET_ERROR with another error: the handle was closed or
\* invalidated by stop(), or the system reports an error on the open socket
LoopRecvError ==
    /\ rpc = "recv"
    /\ rx' = [received |-> SOCKET_ERROR, err |-> "other", buf |-> <<>>]
    /\ rpc' = "chk"
    /\ UNCHANGED <<svars, endian_, running_, sockfd_, wsaInitialized_, latest_, hasData_,
                   dataMutex_, pkt, mpc, cpc, out, ret, openSocks,
                   boundSock, queue, lastValid, stopAfter,
                   lastPublished, pubDgram>>

\* if (!running_) break;
LoopBreak ==
    /\ rpc = "chk"
    /\ ~running_
    /\ rpc' = "done"
    /\ rx' = NoRx
    /\ UNCHANGED <<svars, endian_, running_, sockfd_, wsaInitialized_, latest_, hasData_,
                   dataMutex_, pkt, mpc, cpc, out, ret, openSocks,
                   boundSock, queue, lastValid, stopAfter,
                   lastPublished, pubDgram>>

\* LoopSleep that leaves the loop on an error
LoopSleepExits ==
    /\ rpc = "chk"
    /\ running_
    /\ rx.received = SOCKET_ERROR
    /\ rpc' = IF rx.err = "other" THEN "done" ELSE "while"
    /\ rx' = NoRx
    /\ UNCHANGED <<svars, endian_, running_, sockfd_, wsaInitialized_, latest_, hasData_,
                   dataMutex_, pkt, mpc, cpc, out, ret, openSocks,
                   boundSock, queue, lastValid, stopAfter,
                   lastPublished, pubDgram>>

\* received == SOCKET_ERROR: sleep 2 ms (would block) or 10 ms, continue
LoopSleep ==
    /\ rpc = "chk"
    /\ running_
    /\ rx.received = SOCKET_ERROR
    /\ rpc' = "while"
    /\ rx' = NoRx
    /\ UNCHANGED <<svars, endian_, running_, sockfd_, wsaInitialized_, latest_, hasData_,
                   dataMutex_, pkt, mpc, cpc, out, ret, openSocks,
                   boundSock, queue, lastValid, stopAfter,
                   lastPublished, pubDgram>>

\* LoopDrop that also drops a frame whose sequence is not above the stored one
LoopDropStale ==
    /\ rpc = "chk"
    /\ running_
    /\ rx.received # SOCKET_ERROR
    /\ \/ ~Valid(rx.buf, rx.received, endian_)
       \/ hasData_ /\ read32(rx.buf, 8, endian_) <= latest_.seq
    /\ rpc' = "while"
    /\ rx' = NoRx
    /\ UNCHANGED <<svars, endian_, running_, sockfd_, wsaInitialized_, latest_, hasData_,
                   dataMutex_, pkt, mpc, cpc, out, ret, openSocks,
                   boundSock, queue, lastValid, stopAfter, lastPublished, pubDgram>>

\* LoopDrop that leaves the loop (break) instead of continuing
LoopDropBreaks ==
    /\ rpc = "chk"
    /\ running_
    /\ rx.received # SOCKET_ERROR
    /\ ~Valid(rx.buf, rx.received, endian_)
    /\ rpc' = "done"
    /\ rx' = NoRx
    /\ UNCHANGED <<svars, endian_, running_, sockfd_, wsaInitialized_, latest_, hasData_,
                   dataMutex_, pkt, mpc, cpc, out, ret, openSocks,
                   boundSock, queue, lastValid, stopAfter, lastPublished, pubDgram>>

\* too small, wrong magic, wrong version or truncated: continue
LoopDrop ==
    /\ rpc = "chk"
    /\ running_
    /\ rx.received # SOCKET_ERROR
    /\ ~Valid(rx.buf, rx.received, endian_)
    /\ rpc' = "while"
    /\ rx' = NoRx
    /\ UNCHANGED <<svars, endian_, running_, sockfd_, wsaInitialized_, latest_, hasData_,
                   dataMutex_, pkt, mpc, cpc, out, ret, openSocks,
                   boundSock, queue, lastValid, stopAfter,
                   lastPublished, pubDgram>>

\* the datagram passes the checks: pkt is filled in from recvBuffer_
LoopDecode ==
    /\ rpc = "chk"
    /\ running_
    /\ rx.received # SOCKET_ERROR
    /\ Valid(rx.buf, rx.received, endian_)
    /\ pkt' = Decode(rx.buf, endian_)
    /\ rpc' = "lock"
    /\ UNCHANGED <<svars, endian_, running_, sockfd_, wsaInitialized_, latest_, hasData_,
                   dataMutex_, rx, mpc, cpc, out, ret, openSocks,
                   boundSock, queue, lastValid, stopAfter, lastPublished, pubDgram>>

\* a lock that excludes nobody
MutexFreeAlways(m) == TRUE

\* std::lock_guard<std::mutex> lock(dataMutex_) succeeds when nobody holds it
MutexFree(m) == m = Unlocked

\* the lock is taken; latest_ = std::move(pkt), member by member: seq and
\* timestampNanos ...
LoopLockMoveHeader ==
    /\ rpc = "lock"
    /\ MutexFree(dataMutex_)
    /\ dataMutex_' = ByLoop
    /\ latest_' = [latest_ EXCEPT !.seq = pkt.seq,
                                  !.timestampNanos = pkt.timestampNanos]
    /\ rpc' = "mv_data"
    /\ UNCHANGED <<svars, endian_, running_, sockfd_, wsaInitialized_, hasData_,
                   rx, pkt, mpc, cpc, out, ret, openSocks,
                   boundSock, queue, lastValid, stopAfter,
                   lastPublished, pubDgram>>

\* ... then data; hasData_ = true; the lock_guard releases the mutex
LoopMoveDataPublish ==
    /\ rpc = "mv_data"
    /\ latest_' = [latest_ EXCEPT !.data = pkt.data]
    /\ hasData_' = TRUE
    /\ dataMutex_' = IF dataMutex_ = ByLoop THEN Unlocked ELSE dataMutex_
    /\ lastPublished' = pkt
    /\ pubDgram' = rx.buf
    /\ pkt' = DefaultPacket
    /\ rx' = NoRx
    /\ rpc' = "while"
    /\ UNCHANGED <<svars, endian_, running_, sockfd_, wsaInitialized_,
                   mpc, cpc, out, ret, openSocks,
                   boundSock, queue, lastValid, stopAfter>>

(***************************************************************************)
(* UdpDoubleReceiver::getLatest, called by thread c with its Packet out[c] *)
(***************************************************************************)
\* the lock is taken; if (!hasData_) return false; the mutex is released
GetLatestEmpty(c) ==
    /\ cpc[c] = "idle"
    /\ MutexFree(dataMutex_)
    /\ ~hasData_
    /\ ret' = [ret EXCEPT ![c] = "false"]
    /\ UNCHANGED <<svars, endian_, running_, sockfd_, wsaInitialized_, latest_, hasData_,
                   dataMutex_, rpc, rx, pkt, mpc, cpc, out, openSocks,
                   boundSock, queue, lastValid, stopAfter,
                   lastPublished, pubDgram>>

\* the lock is taken; hasData_ is set; out = latest_, member by member: seq
\* and timestampNanos ...
GetLatestLockCopyHeader(c) ==
    /\ cpc[c] = "idle"
    /\ MutexFree(dataMutex_)
    /\ hasData_
    /\ dataMutex_' = ByCaller(c)
    /\ out' = [out EXCEPT ![c].seq = latest_.seq,
                          ![c].timestampNanos = latest_.timestampNanos]
    /\ cpc' = [cpc EXCEPT ![c] = "cp_data"]
    /\ UNCHANGED <<svars, endian_, running_, sockfd_, wsaInitialized_, latest_, hasData_,
                   rpc, rx, pkt, mpc, ret, openSocks, boundSock, queue, lastValid, stopAfter, lastPublished, pubDgram>>

\* ... then data; return true; the lock_guard releases the mutex
GetLatestCopyData(c) ==
    /\ cpc[c] = "cp_data"
    /\ out' = [out EXCEPT ![c].data = latest_.data]
    /\ ret' = [ret EXCEPT ![c] = "true"]
    /\ dataMutex_' = IF dataMutex_ = ByCaller(c) THEN Unlocked ELSE dataMutex_
    /\ cpc' = [cpc EXCEPT ![c] = "idle"]
    /\ UNCHANGED <<svars, endian_, running_, sockfd_, wsaInitialized_, latest_, hasData_,
                   rpc, rx, pkt, mpc, openSocks, boundSock,
                   queue, lastValid, stopAfter, lastPublished, pubDgram>>

(***************************************************************************)
(* UdpDoubleSender                                                         *)
(***************************************************************************)
NumSenders == 2
ClockBelowZero == 1
MaxClock == 1
MaxSeq == 1

INT32_MAX == 2147483647
INT32_MIN == -2147483647 - 1

Max(a, b) == IF a >= b THEN a ELSE b
Min(a, b) == IF a <= b THEN a ELSE b

\* int / int of C++ truncates toward zero
CDiv(a, b) == IF a >= 0 THEN a \div b ELSE -((-a) \div b)

\* a capacity that ignores the payload budget
MaxDoublesNoPayloadLimit(maxDoubles, maxPayloadBytes) == Max(0, maxDoubles)

\* the constructor's maxDoubles_
MaxDoubles(maxDoubles, maxPayloadBytes) ==
    LET payloadLimit == IF maxPayloadBytes > 0 THEN maxPayloadBytes
                        ELSE DEFAULT_MAX_UDP_PAYLOAD
        maxByPayload == Max(0, CDiv(payloadLimit - Sender_HEADER_BYTES, 8))
    IN  Max(0, Min(maxDoubles, maxByPayload))

isOpen_(s) == s # INVALID_SOCKET

\* tsOffset_ as initTimestampOffset_ sets it when the clock reads n
initTimestampOffset_(n) == IF n < 0 THEN -n ELSE 0

\* the clock reading without the offset
monotonicNowRaw(n, off) == n

monotonicNowNanosNonNegative_(n, off) == n + off

\* constructor arguments maxDoubles (M) and maxPayloadBytes (B) in use
CtorArgs ==
    { [M |-> 1000, B |-> 1400], [M |-> 1000, B |-> 0], [M |-> 1000, B |-> -7],
      [M |-> 2, B |-> 1400], [M |-> -3, B |-> 1400], [M |-> 1000, B |-> 10],
      [M |-> 1000, B |-> 43] }

\* the array a non-null data points to: count doubles
DblPatterns == <<Dbl_1_5, Dbl_NaN, Dbl_NegZero, Dbl_PosInf, Dbl_NegInf, Dbl_Mixed>>
Doubles(count) == [k \in 1..count |-> DblPatterns[((k - 1) % 6) + 1]]

\* arguments callers pass: count around 0 and around the capacity;
\* timestampNanos, where INT64_MIN is the default argument
CountArgs(cap) == {-1, 0, 1, cap, cap + 1}
TimestampArgs == {INT64_MIN, Int64(-5), Int64(9)}

\* wire is the datagram handed to send/sendto, value what the call returned,
\* os what send/sendto did with the datagram
NoCall ==
    [obj |-> 0, fn |-> "none", dataNull |-> FALSE, count |-> 0, seq |-> 0,
     timestampNanos |-> Int64(0), cap |-> 0, result |-> "none", what |-> "",
     value |-> 0, wire |-> <<>>, os |-> "not called"]

\* no constructor is running.  s is the socket of the candidate being tried,
\* log what became of each candidate tried, before the handles that were
\* open when the constructor was entered
NoCtor ==
    [obj |-> 0, stage |-> "none", bindLocal |-> FALSE, n |-> 0, idx |-> 0,
     s |-> INVALID_SOCKET, log |-> <<>>, before |-> {}, result |-> "none"]

\* no UdpDoubleSender object exists: members hold their default initializers
NoSender ==
    /\ now = 0
    /\ alive = [i \in 1..NumSenders |-> FALSE]
    /\ sock_ = [i \in 1..NumSenders |-> INVALID_SOCKET]
    /\ maxDoubles_ = [i \in 1..NumSenders |-> 0]
    /\ seq_ = [i \in 1..NumSenders |-> 0]
    /\ tsOffset_ = [i \in 1..NumSenders |-> 0]
    /\ connect_ = [i \in 1..NumSenders |-> FALSE]
    /\ spc = "idle"
    /\ call = NoCall
    /\ aborted = FALSE
    /\ sOpen = {}
    /\ cfg = [i \in 1..NumSenders |-> [M |-> 0, B |-> 0]]
    /\ movedTo = 0
    /\ closed = [i \in 1..NumSenders |-> "no"]
    /\ closedTwice = FALSE
    /\ win32 = TRUE
    /\ winsock_ = [i \in 0..NumSenders |-> FALSE]
    /\ destAddr_ = [i \in 1..NumSenders |-> 0]
    /\ ctor = NoCtor

\* object 1 has been constructed with arguments a of A while the clock read
\* now, and has since sent s0 of S0 frames with sendAutoSeq
InitSender(A, S0) ==
    /\ hostLE \in BOOLEAN
    /\ now \in {-ClockBelowZero, 0}
    /\ alive = [i \in 1..NumSenders |-> i = 1]
    /\ sock_ = [i \in 1..NumSenders |-> IF i = 1 THEN 1 ELSE INVALID_SOCKET]
    /\ \E a \in A :
        /\ maxDoubles_ = [i \in 1..NumSenders |-> IF i = 1 THEN MaxDoubles(a.M, a.B) ELSE 0]
        /\ cfg = [i \in 1..NumSenders |-> IF i = 1 THEN a ELSE [M |-> 0, B |-> 0]]
    /\ \E s0 \in S0 :
        seq_ = [i \in 1..NumSenders |-> IF i = 1 THEN s0 ELSE 0]
    /\ tsOffset_ = [i \in 1..NumSenders |-> IF i = 1 THEN initTimestampOffset_(now) ELSE 0]
    /\ connect_ = [i \in 1..NumSenders |-> i = 1]
    /\ spc = "idle"
    /\ call = NoCall
    /\ aborted = FALSE
    /\ sOpen = {1}
    /\ movedTo = 0
    /\ closed = [i \in 1..NumSenders |-> "no"]
    /\ closedTwice = FALSE
    /\ win32 \in BOOLEAN
    /\ winsock_ = [i \in 0..NumSenders |-> win32 /\ i = 1]
    /\ destAddr_ = [i \in 1..NumSenders |-> IF i = 1 THEN 1 ELSE 0]
    /\ ctor = NoCtor

\* closeSock_ on a member sock_ = s while the handles of open are open: the
\* handle is closed if isOpen_; closing one that is not open closes it again
ClosesAgain(s, open) == isOpen_(s) /\ s \notin open

\* WinsockRAII objects exist: WSAStartup was called more often than WSACleanup
WinsockInUse(ws) == \E i \in DOMAIN ws : ws[i]

\* the open handles once the WinsockRAII objects of ws have become those of
\* after: the WSACleanup that undoes the last WSAStartup deallocates every
\* socket of the process
AfterCleanup(open, ws, after) ==
    IF WinsockInUse(ws) /\ ~WinsockInUse(after) THEN {} ELSE open

\* the steady clock advances
Tick ==
    /\ ~aborted
    /\ now < MaxClock
    /\ now' = now + 1
    /\ UNCHANGED <<rvars, hostLE, alive, sock_, maxDoubles_, seq_, tsOffset_,
                   connect_, spc, call, aborted, sOpen, cfg, movedTo, closed,
                   closedTwice, win32, winsock_, destAddr_,
                   ctor, codec>>

\* UdpDoubleSender::UdpDoubleSender(.., maxDoubles = a.M, connectUdp,
\* maxPayloadBytes = a.B, ..) succeeds
Construct(i, a, connectUdp) ==
    /\ ~aborted /\ spc = "idle"
    /\ ~alive[i]
    /\ sOpen # 1..MaxHandles
    /\ maxDoubles_' = [maxDoubles_ EXCEPT ![i] = MaxDoubles(a.M, a.B)]
    /\ connect_' = [connect_ EXCEPT ![i] = connectUdp]
    /\ cfg' = [cfg EXCEPT ![i] = a]
    /\ alive' = [alive EXCEPT ![i] = TRUE]
    /\ seq_' = [seq_ EXCEPT ![i] = 0]
    /\ tsOffset_' = [tsOffset_ EXCEPT ![i] = initTimestampOffset_(now)]
    /\ sock_' = [sock_ EXCEPT ![i] = NewSocket(sOpen)]
    /\ sOpen' = sOpen \cup {NewSocket(sOpen)}
    /\ movedTo' = IF movedTo = i THEN 0 ELSE movedTo
    /\ closed' = [closed EXCEPT ![i] = "no"]
    /\ winsock_' = [winsock_ EXCEPT ![i] = win32]
    /\ destAddr_' = [destAddr_ EXCEPT ![i] = 1]
    /\ UNCHANGED <<rvars, hostLE, now, spc, call, aborted, closedTwice, win32, ctor,
                   codec>>

\* the constructor throws std::runtime_error: getaddrinfo fails, or no
\* resolved address gives a usable socket (each socket tried is closed); the
\* WinsockRAII it allocated is not deleted
ConstructThrows(i) ==
    /\ ~aborted /\ spc = "idle"
    /\ ~alive[i]
    /\ winsock_' = [winsock_ EXCEPT ![0] = @ \/ win32]
    /\ UNCHANGED <<rvars, hostLE, now, alive, sock_, maxDoubles_, seq_, tsOffset_,
                   connect_, spc, call, aborted, sOpen, cfg, movedTo, closed,
                   closedTwice, win32, destAddr_, ctor, codec>>

(***************************************************************************)
(* The constructor, one resolved address at a time.  The resolver returns  *)
(* MaxCandidates addresses at most; what socket(), bind() and connect() do *)
(* with each is up to the system.                                          *)
(***************************************************************************)
MaxCandidates == 2

\* what the steps of a constructor call leave alone
CtorFrame ==
    UNCHANGED <<rvars, hostLE, now, seq_, call, aborted, movedTo, closed,
                closedTwice, win32, codec>>

\* the constructor of object i is entered: WinsockRAII, maxDoubles_, buffer_,
\* initTimestampOffset_; createAndConfigureSocket_(localPort, ..) calls
\* getaddrinfo.  bindLocal: localPort is not 0
CtorEnter(i, a, connectUdp, bindLocal) ==
    /\ ~aborted /\ spc = "idle"
    /\ ~alive[i]
    /\ maxDoubles_' = [maxDoubles_ EXCEPT ![i] = MaxDoubles(a.M, a.B)]
    /\ connect_' = [connect_ EXCEPT ![i] = connectUdp]
    /\ cfg' = [cfg EXCEPT ![i] = a]
    /\ tsOffset_' = [tsOffset_ EXCEPT ![i] = initTimestampOffset_(now)]
    /\ winsock_' = [winsock_ EXCEPT ![i] = win32]
    /\ spc' = "in_ctor"
    /\ ctor' = [NoCtor EXCEPT !.obj = i, !.stage = "getaddrinfo",
                              !.bindLocal = bindLocal, !.before = sOpen]
    /\ UNCHANGED <<alive, sock_, sOpen, destAddr_>>
    /\ CtorFrame

\* the members of the object whose constructor throws: the object never
\* exists; its WinsockRAII is not deleted
CtorThrows(what) ==
    /\ ctor' = [ctor EXCEPT !.stage = "done", !.result = what, !.s = INVALID_SOCKET]
    /\ spc' = "idle"
    /\ maxDoubles_' = [maxDoubles_ EXCEPT ![ctor.obj] = 0]
    /\ connect_' = [connect_ EXCEPT ![ctor.obj] = FALSE]
    /\ cfg' = [cfg EXCEPT ![ctor.obj] = [M |-> 0, B |-> 0]]
    /\ tsOffset_' = [tsOffset_ EXCEPT ![ctor.obj] = 0]
    /\ destAddr_' = [destAddr_ EXCEPT ![ctor.obj] = 0]
    /\ winsock_' = [winsock_ EXCEPT ![ctor.obj] = FALSE, ![0] = @ \/ win32]
    /\ UNCHANGED <<alive, sock_, sOpen>>
    /\ CtorFrame

\* getaddrinfo fails or returns no address: throw std::runtime_error
CtorGetaddrinfoFails ==
    /\ spc = "in_ctor" /\ ctor.stage = "getaddrinfo"
    /\ CtorThrows("getaddrinfo failed")

\* getaddrinfo returns n addresses; the loop starts with the first
CtorResolved(n) ==
    /\ spc = "in_ctor" /\ ctor.stage = "getaddrinfo"
    /\ ctor' = [ctor EXCEPT !.stage = "socket", !.n = n, !.idx = 1]
    /\ UNCHANGED <<alive, sock_, sOpen, destAddr_, maxDoubles_, connect_, cfg,
                   tsOffset_, winsock_, spc>>
    /\ CtorFrame

\* continue: ai = ai->ai_next, and the loop ends when ai is null
NextCandidate(c, outcome) ==
    [c EXCEPT !.log = Append(@, [cand |-> c.idx, outcome |-> outcome]),
              !.s = INVALID_SOCKET,
              !.idx = IF c.idx < c.n THEN c.idx + 1 ELSE c.idx,
              !.stage = IF c.idx < c.n THEN "socket" ELSE "exhausted"]

\* socket() fails for the address: continue
CtorSocketFails ==
    /\ spc = "in_ctor" /\ ctor.stage = "socket"
    /\ ctor' = NextCandidate(ctor, "socket failed")
    /\ UNCHANGED <<alive, sock_, sOpen, destAddr_, maxDoubles_, connect_, cfg,
                   tsOffset_, winsock_, spc>>
    /\ CtorFrame

\* socket() returns s; setsockopt(SO_SNDBUF)
CtorSocket ==
    /\ spc = "in_ctor" /\ ctor.stage = "socket"
    /\ sOpen # 1..MaxHandles
    /\ sOpen' = sOpen \cup {NewSocket(sOpen)}
    /\ ctor' = [ctor EXCEPT !.s = NewSocket(sOpen), !.stage = "bind"]
    /\ UNCHANGED <<alive, sock_, destAddr_, maxDoubles_, connect_, cfg,
                   tsOffset_, winsock_, spc>>
    /\ CtorFrame

\* CtorBindFails that leaves the socket open
CtorBindFailsLeaks ==
    /\ spc = "in_ctor" /\ ctor.stage = "bind"
    /\ ctor.bindLocal
    /\ ctor' = NextCandidate(ctor, "bind failed")
    /\ UNCHANGED <<alive, sock_, sOpen, destAddr_, maxDoubles_, connect_, cfg,
                   tsOffset_, winsock_, spc>>
    /\ CtorFrame

\* bindLocal_ returns false (localPort is not 0): close(s), continue
CtorBindFails ==
    /\ spc = "in_ctor" /\ ctor.stage = "bind"
    /\ ctor.bindLocal
    /\ sOpen' = sOpen \ {ctor.s}
    /\ ctor' = NextCandidate(ctor, "bind failed")
    /\ UNCHANGED <<alive, sock_, destAddr_, maxDoubles_, connect_, cfg,
                   tsOffset_, winsock_, spc>>
    /\ CtorFrame

\* bindLocal_ returns true: destAddr_ is copied from the address; connect
\* comes next in connected mode
CtorBound ==
    /\ spc = "in_ctor" /\ ctor.stage = "bind"
    /\ destAddr_' = [destAddr_ EXCEPT ![ctor.obj] = ctor.idx]
    /\ ctor' = [ctor EXCEPT !.stage = IF connect_[ctor.obj] THEN "connect" ELSE "keep"]
    /\ UNCHANGED <<alive, sock_, sOpen, maxDoubles_, connect_, cfg,
                   tsOffset_, winsock_, spc>>
    /\ CtorFrame

\* connect fails: close(s), continue
CtorConnectFails ==
    /\ spc = "in_ctor" /\ ctor.stage = "connect"
    /\ sOpen' = sOpen \ {ctor.s}
    /\ ctor' = NextCandidate(ctor, "connect failed")
    /\ UNCHANGED <<alive, sock_, destAddr_, maxDoubles_, connect_, cfg,
                   tsOffset_, winsock_, spc>>
    /\ CtorFrame

\* connect succeeds
CtorConnected ==
    /\ spc = "in_ctor" /\ ctor.stage = "connect"
    /\ ctor' = [ctor EXCEPT !.stage = "keep"]
    /\ UNCHANGED <<alive, sock_, sOpen, destAddr_, maxDoubles_, connect_, cfg,
                   tsOffset_, winsock_, spc>>
    /\ CtorFrame

\* sock_ = s; return: the object is constructed
CtorKeep ==
    /\ spc = "in_ctor" /\ ctor.stage = "keep"
    /\ sock_' = [sock_ EXCEPT ![ctor.obj] = ctor.s]
    /\ alive' = [alive EXCEPT ![ctor.obj] = TRUE]
    /\ ctor' = [ctor EXCEPT !.stage = "done", !.result = "constructed",
                            !.log = Append(@, [cand |-> ctor.idx, outcome |-> "kept"])]
    /\ spc' = "idle"
    /\ UNCHANGED <<sOpen, destAddr_, maxDoubles_, connect_, cfg, tsOffset_, winsock_>>
    /\ CtorFrame

\* the loop has ended: throw std::runtime_error
CtorNoUsableAddress ==
    /\ spc = "in_ctor" /\ ctor.stage = "exhausted"
    /\ CtorThrows("Failed to create usable UDP socket for any resolved address")

\* UdpDoubleSender(UdpDoubleSender&& other): moveFrom_; winsock_ of the new
\* object is nullptr, other keeps its own
MoveConstruct(dst, src) ==
    /\ ~aborted /\ spc = "idle"
    /\ dst # src /\ ~alive[dst] /\ alive[src]
    /\ alive' = [alive EXCEPT ![dst] = TRUE]
    /\ connect_' = [connect_ EXCEPT ![dst] = connect_[src]]
    /\ maxDoubles_' = [maxDoubles_ EXCEPT ![dst] = maxDoubles_[src]]
    /\ seq_' = [seq_ EXCEPT ![dst] = seq_[src]]
    /\ tsOffset_' = [tsOffset_ EXCEPT ![dst] = tsOffset_[src]]
    /\ sock_' = [sock_ EXCEPT ![dst] = sock_[src], ![src] = INVALID_SOCKET]
    /\ cfg' = [cfg EXCEPT ![dst] = cfg[src]]
    /\ movedTo' = dst
    /\ closed' = [closed EXCEPT ![dst] = "no"]
    /\ destAddr_' = [destAddr_ EXCEPT ![dst] = destAddr_[src], ![src] = 0]
    /\ UNCHANGED <<rvars, hostLE, now, spc, call, aborted, sOpen, closedTwice, win32,
                   winsock_, ctor, codec>>

\* operator=(UdpDoubleSender&& other), this != &other: close(), delete
\* winsock_, winsock_ = other.winsock_, moveFrom_
MoveAssign(dst, src) ==
    /\ ~aborted /\ spc = "idle"
    /\ dst # src /\ alive[dst] /\ alive[src]
    /\ winsock_' = [winsock_ EXCEPT ![dst] = winsock_[src], ![src] = FALSE]
    /\ sOpen' = AfterCleanup(sOpen \ {sock_[dst]}, winsock_, winsock_')
    /\ connect_' = [connect_ EXCEPT ![dst] = connect_[src]]
    /\ maxDoubles_' = [maxDoubles_ EXCEPT ![dst] = maxDoubles_[src]]
    /\ seq_' = [seq_ EXCEPT ![dst] = seq_[src]]
    /\ tsOffset_' = [tsOffset_ EXCEPT ![dst] = tsOffset_[src]]
    /\ sock_' = [sock_ EXCEPT ![dst] = sock_[src], ![src] = INVALID_SOCKET]
    /\ cfg' = [cfg EXCEPT ![dst] = cfg[src]]
    /\ movedTo' = dst
    /\ closed' = [closed EXCEPT ![dst] = IF @ = "closed" /\ isOpen_(sock_[src])
                                         THEN "reopened" ELSE @]
    /\ closedTwice' = (closedTwice \/ ClosesAgain(sock_[dst], sOpen))
    /\ destAddr_' = [destAddr_ EXCEPT ![dst] = destAddr_[src], ![src] = 0]
    /\ UNCHANGED <<rvars, hostLE, now, alive, spc, call, aborted, win32, ctor, codec>>

\* operator=(UdpDoubleSender&& other), this == &other
MoveAssignSelf(i) ==
    /\ ~aborted /\ spc = "idle"
    /\ alive[i]
    /\ UNCHANGED <<rvars, svars>>

CloseKeepsHandle(i) ==
    /\ ~aborted /\ spc = "idle"
    /\ alive[i]
    /\ sOpen' = sOpen \ {sock_[i]}
    /\ closed' = [closed EXCEPT ![i] = "closed"]
    /\ closedTwice' = (closedTwice \/ ClosesAgain(sock_[i], sOpen))
    /\ UNCHANGED <<rvars, hostLE, now, alive, sock_, maxDoubles_, seq_, tsOffset_,
                   connect_, spc, call, aborted, cfg, movedTo, win32, winsock_,
                   destAddr_, ctor, codec>>

\* UdpDoubleSender::close: closeSock_
Close(i) ==
    /\ ~aborted /\ spc = "idle"
    /\ alive[i]
    /\ sOpen' = sOpen \ {sock_[i]}
    /\ sock_' = [sock_ EXCEPT ![i] = INVALID_SOCKET]
    /\ closed' = [closed EXCEPT ![i] = "closed"]
    /\ closedTwice' = (closedTwice \/ ClosesAgain(sock_[i], sOpen))
    /\ UNCHANGED <<rvars, hostLE, now, alive, maxDoubles_, seq_, tsOffset_,
                   connect_, spc, call, aborted, cfg, movedTo, win32, winsock_,
                   destAddr_, ctor, codec>>

\* UdpDoubleSender::~UdpDoubleSender: close(), delete winsock_; the object
\* is gone
Destroy(i) ==
    /\ ~aborted /\ spc = "idle"
    /\ alive[i]
    /\ winsock_' = [winsock_ EXCEPT ![i] = FALSE]
    /\ sOpen' = AfterCleanup(sOpen \ {sock_[i]}, winsock_, winsock_')
    /\ alive' = [alive EXCEPT ![i] = FALSE]
    /\ sock_' = [sock_ EXCEPT ![i] = INVALID_SOCKET]
    /\ maxDoubles_' = [maxDoubles_ EXCEPT ![i] = 0]
    /\ seq_' = [seq_ EXCEPT ![i] = 0]
    /\ tsOffset_' = [tsOffset_ EXCEPT ![i] = 0]
    /\ connect_' = [connect_ EXCEPT ![i] = FALSE]
    /\ cfg' = [cfg EXCEPT ![i] = [M |-> 0, B |-> 0]]
    /\ movedTo' = IF movedTo = i THEN 0 ELSE movedTo
    /\ closed' = [closed EXCEPT ![i] = "no"]
    /\ closedTwice' = (closedTwice \/ ClosesAgain(sock_[i], sOpen))
    /\ destAddr_' = [destAddr_ EXCEPT ![i] = 0]
    /\ UNCHANGED <<rvars, hostLE, now, spc, call, aborted, win32, ctor, codec>>

\* a caller enters sendWithSeq(data, count, seq, timestampNanos); data is
\* null or points to count doubles
CallSendWithSeq(i, dataNull, count, seq, timestampNanos) ==
    /\ ~aborted /\ spc = "idle"
    /\ alive[i]
    /\ call' = [obj |-> i, fn |-> "sendWithSeq", dataNull |-> dataNull,
                count |-> count, seq |-> seq, timestampNanos |-> timestampNanos,
                cap |-> maxDoubles_[i], result |-> "pending", what |-> "",
                value |-> 0, wire |-> <<>>, os |-> "not called"]
    /\ spc' = "in_send"
    /\ UNCHANGED <<rvars, hostLE, now, alive, sock_, maxDoubles_, seq_, tsOffset_,
                   connect_, aborted, sOpen, cfg, movedTo, closed,
                   closedTwice, win32, winsock_, destAddr_,
                   ctor, codec>>

\* sendAutoSeq(data, count): seq_++ is evaluated, sendWithSeq is entered
\* with the old value and the default timestampNanos
CallSendAutoSeq(i, dataNull, count) ==
    /\ ~aborted /\ spc = "idle"
    /\ alive[i]
    /\ seq_[i] # INT32_MAX
    /\ seq_[i] # MaxSeq /\ seq_[i] # INT32_MIN + MaxSeq
    /\ seq_' = [seq_ EXCEPT ![i] = seq_[i] + 1]
    /\ call' = [obj |-> i, fn |-> "sendAutoSeq", dataNull |-> dataNull,
                count |-> count, seq |-> seq_[i], timestampNanos |-> INT64_MIN,
                cap |-> maxDoubles_[i], result |-> "pending", what |-> "",
                value |-> 0, wire |-> <<>>, os |-> "not called"]
    /\ spc' = "in_send"
    /\ UNCHANGED <<rvars, hostLE, now, alive, sock_, maxDoubles_, tsOffset_,
                   connect_, aborted, sOpen, cfg, movedTo, closed,
                   closedTwice, win32, winsock_, destAddr_,
                   ctor, codec>>

\* sendAutoSeq with seq_ == INT32_MAX: seq_++ overflows int32_t, which is
\* undefined.  One outcome: the addition wraps to INT32_MIN
CallSendAutoSeqWraps(i, dataNull, count) ==
    /\ ~aborted /\ spc = "idle"
    /\ alive[i]
    /\ seq_[i] = INT32_MAX
    /\ seq_' = [seq_ EXCEPT ![i] = INT32_MIN]
    /\ call' = [obj |-> i, fn |-> "sendAutoSeq", dataNull |-> dataNull,
                count |-> count, seq |-> seq_[i], timestampNanos |-> INT64_MIN,
                cap |-> maxDoubles_[i], result |-> "pending", what |-> "",
                value |-> 0, wire |-> <<>>, os |-> "not called"]
    /\ spc' = "in_send"
    /\ UNCHANGED <<rvars, hostLE, now, alive, sock_, maxDoubles_, tsOffset_,
                   connect_, aborted, sOpen, cfg, movedTo, closed,
                   closedTwice, win32, winsock_, destAddr_,
                   ctor, codec>>

\* The other outcome: the overflow traps and the process is terminated
\* before sendWithSeq is entered
CallSendAutoSeqTraps(i) ==
    /\ ~aborted /\ spc = "idle"
    /\ alive[i]
    /\ seq_[i] = INT32_MAX
    /\ aborted' = TRUE
    /\ call' = [NoCall EXCEPT !.obj = i, !.fn = "sendAutoSeq",
                              !.seq = seq_[i], !.timestampNanos = INT64_MIN,
                              !.cap = maxDoubles_[i], !.result = "terminated"]
    /\ UNCHANGED <<rvars, hostLE, now, alive, sock_, maxDoubles_, seq_, tsOffset_,
                   connect_, spc, sOpen, cfg, movedTo, closed,
                   closedTwice, win32, winsock_, destAddr_,
                   ctor, codec>>

\* sendWithSeq: if (!data) throw std::invalid_argument
SendNullData ==
    /\ spc = "in_send"
    /\ call.dataNull
    /\ call' = [call EXCEPT !.result = "invalid_argument", !.what = "data is null"]
    /\ spc' = "idle"
    /\ UNCHANGED <<rvars, hostLE, now, alive, sock_, maxDoubles_, seq_, tsOffset_,
                   connect_, aborted, sOpen, cfg, movedTo, closed,
                   closedTwice, win32, winsock_, destAddr_,
                   ctor, codec>>

\* if (count <= 0) return 0
SendNothing ==
    /\ spc = "in_send"
    /\ ~call.dataNull
    /\ call.count <= 0
    /\ call' = [call EXCEPT !.result = "returned", !.value = 0]
    /\ spc' = "idle"
    /\ UNCHANGED <<rvars, hostLE, now, alive, sock_, maxDoubles_, seq_, tsOffset_,
                   connect_, aborted, sOpen, cfg, movedTo, closed,
                   closedTwice, win32, winsock_, destAddr_,
                   ctor, codec>>

\* the frame is packed into buffer_ and send/sendto takes all of it
SendTransmit ==
    /\ spc = "in_send"
    /\ ~call.dataNull
    /\ call.count > 0
    /\ call.count <= maxDoubles_[call.obj]
    /\ isOpen_(sock_[call.obj]) /\ sock_[call.obj] \in sOpen
    /\ LET timestampNanos ==
               IF call.timestampNanos = INT64_MIN
               THEN Int64(monotonicNowNanosNonNegative_(now, tsOffset_[call.obj]))
               ELSE call.timestampNanos
           frame == PackFrame(hostLE, call.count, call.seq, timestampNanos,
                              Doubles(call.count))
       IN  call' = [call EXCEPT !.result = "returned", !.value = Len(frame),
                                !.wire = frame, !.os = "full"]
    /\ spc' = "idle"
    /\ UNCHANGED <<rvars, hostLE, now, alive, sock_, maxDoubles_, seq_, tsOffset_,
                   connect_, aborted, sOpen, cfg, movedTo, closed,
                   closedTwice, win32, winsock_, destAddr_,
                   ctor, codec>>

\* SendTooMany without the check: the frame is sent
SendTooManyUnchecked ==
    /\ spc = "in_send"
    /\ ~call.dataNull
    /\ call.count > 0
    /\ call.count > maxDoubles_[call.obj]
    /\ call' = [call EXCEPT !.result = "returned",
                            !.value = Sender_HEADER_BYTES + call.count * 8,
                            !.wire = PackFrame(hostLE, call.count, call.seq,
                                               Int64(0), Doubles(call.count))]
    /\ spc' = "idle"
    /\ UNCHANGED <<rvars, hostLE, now, alive, sock_, maxDoubles_, seq_, tsOffset_,
                   connect_, aborted, sOpen, cfg, movedTo, closed,
                   closedTwice, win32, winsock_, destAddr_,
                   ctor, codec>>

\* if (count > maxDoubles_) throw std::invalid_argument
SendTooMany ==
    /\ spc = "in_send"
    /\ ~call.dataNull
    /\ call.count > 0
    /\ call.count > maxDoubles_[call.obj]
    /\ call' = [call EXCEPT !.result = "invalid_argument",
                            !.what = "count > maxDoubles/payload cap"]
    /\ spc' = "idle"
    /\ UNCHANGED <<rvars, hostLE, now, alive, sock_, maxDoubles_, seq_, tsOffset_,
                   connect_, aborted, sOpen, cfg, movedTo, closed,
                   closedTwice, win32, winsock_, destAddr_,
                   ctor, codec>>

\* SendNotOpen with the sequence number of a failed sendAutoSeq given back
SendNotOpenGivesBack ==
    /\ spc = "in_send"
    /\ ~call.dataNull
    /\ call.count > 0
    /\ call.count <= maxDoubles_[call.obj]
    /\ ~isOpen_(sock_[call.obj])
    /\ call' = [call EXCEPT !.result = "runtime_error", !.what = "socket not open"]
    /\ seq_' = IF call.fn = "sendAutoSeq"
               THEN [seq_ EXCEPT ![call.obj] = call.seq] ELSE seq_
    /\ spc' = "idle"
    /\ UNCHANGED <<rvars, hostLE, now, alive, sock_, maxDoubles_, tsOffset_,
                   connect_, aborted, sOpen, cfg, movedTo, closed,
                   closedTwice, win32, winsock_, destAddr_,
                   ctor, codec>>

\* if (!isOpen_()) throw std::runtime_error
SendNotOpen ==
    /\ spc = "in_send"
    /\ ~call.dataNull
    /\ call.count > 0
    /\ call.count <= maxDoubles_[call.obj]
    /\ ~isOpen_(sock_[call.obj])
    /\ call' = [call EXCEPT !.result = "runtime_error", !.what = "socket not open"]
    /\ spc' = "idle"
    /\ UNCHANGED <<rvars, hostLE, now, alive, sock_, maxDoubles_, seq_, tsOffset_,
                   connect_, aborted, sOpen, cfg, movedTo, closed,
                   closedTwice, win32, winsock_, destAddr_,
                   ctor, codec>>

\* send/sendto returns SOCKET_ERROR (it always does when the handle is not
\* that of an open socket): throw std::runtime_error
SendTransportError ==
    /\ spc = "in_send"
    /\ ~call.dataNull
    /\ call.count > 0
    /\ call.count <= maxDoubles_[call.obj]
    /\ isOpen_(sock_[call.obj])
    /\ call' = [call EXCEPT !.result = "runtime_error", !.what = "send/sendto failed",
                            !.os = "failed"]
    /\ spc' = "idle"
    /\ UNCHANGED <<rvars, hostLE, now, alive, sock_, maxDoubles_, seq_, tsOffset_,
                   connect_, aborted, sOpen, cfg, movedTo, closed,
                   closedTwice, win32, winsock_, destAddr_,
                   ctor, codec>>

\* send/sendto reports sent bytes, fewer than the frame has: sent is not
\* SOCKET_ERROR, so return (size_t)sent
SendShortWrite ==
    /\ spc = "in_send"
    /\ ~call.dataNull
    /\ call.count > 0
    /\ call.count <= maxDoubles_[call.obj]
    /\ isOpen_(sock_[call.obj]) /\ sock_[call.obj] \in sOpen
    /\ LET timestampNanos ==
               IF call.timestampNanos = INT64_MIN
               THEN Int64(monotonicNowNanosNonNegative_(now, tsOffset_[call.obj]))
               ELSE call.timestampNanos
           frame == PackFrame(hostLE, call.count, call.seq, timestampNanos,
                              Doubles(call.count))
       IN  \E sent \in {0, Sender_HEADER_BYTES, Len(frame) - 1} :
              call' = [call EXCEPT !.result = "returned", !.value = sent,
                                   !.wire = frame, !.os = "short"]
    /\ spc' = "idle"
    /\ UNCHANGED <<rvars, hostLE, now, alive, sock_, maxDoubles_, seq_, tsOffset_,
                   connect_, aborted, sOpen, cfg, movedTo, closed,
                   closedTwice, win32, winsock_, destAddr_,
                   ctor, codec>>

(***************************************************************************)
(* The wire codec applied to one frame                                     *)
(***************************************************************************)
MaxCount == 2

NoCodec ==
    [stage |-> "none", e |-> "Big", frame |-> DefaultPacket, bytes |-> <<>>,
     re |-> "Big", ok |-> FALSE, out |-> DefaultPacket]

RECURSIVE DoubleArrays(_)
DoubleArrays(n) ==
    IF n = 0 THEN {<<>>}
    ELSE DoubleArrays(n - 1)
            \cup {Append(a, d) : a \in {b \in DoubleArrays(n - 1) : Len(b) = n - 1},
                                 d \in {DblPatterns[k] : k \in 1..6}}

CodecFrames ==
    [seq : {0, 5, -1, INT32_MAX, INT32_MIN},
     timestampNanos : {Int64(0), Int64(-1), INT64_MIN, Dbl_Mixed},
     data : DoubleArrays(MaxCount)]

InitCodec ==
    /\ hostLE \in BOOLEAN
    /\ codec \in [stage : {"frame"}, e : {"Big", "Little"}, frame : CodecFrames,
                  bytes : {<<>>}, re : {"Big"}, ok : {FALSE}, out : {DefaultPacket}]

\* the frame is encoded as the channel's endianness says
CodecEncode ==
    /\ codec.stage = "frame"
    /\ codec' = [codec EXCEPT
                   !.stage = "bytes",
                   !.bytes = encode(hostLE, codec.e, Len(codec.frame.data),
                                    codec.frame.seq, codec.frame.timestampNanos,
                                    codec.frame.data)]
    /\ UNCHANGED <<rvars, hostLE, now, alive, sock_, maxDoubles_, seq_, tsOffset_,
                   connect_, spc, call, aborted, sOpen, cfg, movedTo,
                   closed, closedTwice, win32, winsock_,
                   destAddr_, ctor>>

\* the bytes are checked and decoded as run() does with a datagram in a
\* Receiver configured with the endianness re
CodecDecodeAs(re) ==
    /\ codec.stage = "bytes"
    /\ codec' = [codec EXCEPT
                   !.stage = "done",
                   !.re = re,
                   !.ok = Valid(codec.bytes, Len(codec.bytes), re),
                   !.out = IF Valid(codec.bytes, Len(codec.bytes), re)
                           THEN Decode(codec.bytes, re)
                           ELSE DefaultPacket]
    /\ UNCHANGED <<rvars, hostLE, now, alive, sock_, maxDoubles_, seq_, tsOffset_,
                   connect_, spc, call, aborted, sOpen, cfg, movedTo,
                   closed, closedTwice, win32, winsock_,
                   destAddr_, ctor>>

\* the Receiver is configured with the endianness of the channel
CodecDecode == CodecDecodeAs(codec.e)

NextCodec == CodecEncode \/ CodecDecode

(***************************************************************************)
(* The Receiver with its threads and the network                           *)
(***************************************************************************)
Init == InitReceiver /\ hostLE = TRUE /\ NoSender /\ codec = NoCodec

Start == StartAlreadyRunning \/ StartWsaFail \/ StartSocketFail \/ StartBindFail \/ StartOk

Stop == StopNotRunning \/ StopSignal \/ StopCloseSocket \/ StopInvalidate \/ StopJoin

Loop ==
    \/ LoopWhile \/ LoopRecvDatagram \/ LoopRecvWouldBlock \/ LoopRecvError
    \/ LoopBreak \/ LoopSleep \/ LoopDrop \/ LoopDecode
    \/ LoopLockMoveHeader \/ LoopMoveDataPublish

GetLatest ==
    \E c \in DOMAIN cpc :
        GetLatestEmpty(c) \/ GetLatestLockCopyHeader(c) \/ GetLatestCopyData(c)

Next == Start \/ Stop \/ Deliver \/ Loop \/ GetLatest

Spec == Init /\ [][Next]_vars

(***************************************************************************)
(* The Receiver, sent datagrams at the edge of what run() accepts: a header *)
(* with count = 0 and nothing after it; a frame followed by three more     *)
(* bytes; two doubles after a header that declares one; a frame of one     *)
(* double; and, not to be accepted, two doubles declared with one present  *)
(* and 19 bytes.                                                           *)
(***************************************************************************)
AcceptCases(e) ==
    { Wire([seq |-> 4, timestampNanos |-> Int64(500), data |-> <<>>], e),
      Wire(Frame9, e) \o <<1, 2, 3>>,
      [Wire([seq |-> 6, timestampNanos |-> Int64(600),
             data |-> <<Dbl_1_5, Dbl_NegInf>>], e)
          EXCEPT ![7] = IF e = "Big" THEN 0 ELSE 1,
                 ![8] = IF e = "Big" THEN 1 ELSE 0],
      Wire(Frame5, e),
      WireTruncated(e),
      WireShort(e) }

NextAccept ==
    \/ StartOk \/ Stop \/ Deliver \/ GetLatest
    \/ LoopWhile \/ LoopRecvFrom(AcceptCases(endian_)) \/ LoopRecvWouldBlock
    \/ LoopRecvError \/ LoopBreak \/ LoopSleep \/ LoopDrop \/ LoopDecode
    \/ LoopLockMoveHeader \/ LoopMoveDataPublish

SpecAccept == Init /\ [][NextAccept]_vars

(***************************************************************************)
(* The Receiver under fair scheduling: a thread that can take a step takes *)
(* one.  The background thread runs run() to its end, and gets the mutex   *)
(* when it is free again and again; a thread inside stop() or getLatest    *)
(* goes on to the return.  Whether start(), stop() or getLatest is called, *)
(* and whether a datagram arrives, is up to the caller and the network.    *)
(***************************************************************************)
InitFair ==
    /\ ReceiverConstructed("Big", NumCallers)
    /\ hostLE = TRUE /\ NoSender /\ codec = NoCodec

\* peers send one well-formed datagram and one in the other endianness
LoopFair ==
    \/ LoopWhile \/ LoopRecvFrom({Wire(Frame5, endian_), WireBadMagic(endian_)})
    \/ LoopRecvWouldBlock \/ LoopRecvError
    \/ LoopBreak \/ LoopSleep \/ LoopDrop \/ LoopDecode
    \/ LoopLockMoveHeader \/ LoopMoveDataPublish

NextFair ==
    \/ StartAlreadyRunning \/ StartBindFail \/ StartOk
    \/ Stop \/ Deliver \/ LoopFair \/ GetLatest

Fairness ==
    /\ WF_vars(LoopFair)
    /\ SF_vars(LoopLockMoveHeader)
    /\ WF_vars(StopCloseSocket \/ StopInvalidate \/ StopJoin)
    /\ \A c \in 1..NumCallers : WF_vars(GetLatestCopyData(c))

SpecFair == InitFair /\ [][NextFair]_vars /\ Fairness

(***************************************************************************)
(* The running Receiver with several threads polling getLatest             *)
(***************************************************************************)
InitPolled ==
    /\ ReceiverConstructed("Big", NumReaders)
    /\ hostLE = TRUE /\ NoSender /\ codec = NoCodec

NextPolled ==
    \/ StartOk \/ Deliver
    \/ LoopWhile \/ LoopRecvDatagram \/ LoopRecvWouldBlock \/ LoopRecvError
    \/ LoopSleep \/ LoopDrop \/ LoopDecode
    \/ LoopLockMoveHeader \/ LoopMoveDataPublish
    \/ GetLatest

SpecPolled == InitPolled /\ [][NextPolled]_vars

(***************************************************************************)
(* The process that sends, and the codec on its own                        *)
(***************************************************************************)
\* objects on a little-endian host that are constructed, moved, closed and
\* destroyed, and send one double at a time with sendWithSeq
InitSenderProcess ==
    /\ ReceiverConstructed("Big", NumCallers)
    /\ InitSender({[M |-> 2, B |-> 1400]}, {0})
    /\ hostLE /\ now = 0
    /\ codec = NoCodec

NextSender ==
    \/ \E i \in DOMAIN alive : Construct(i, [M |-> 2, B |-> 1400], TRUE)
    \/ \E i \in DOMAIN alive : ConstructThrows(i)
    \/ \E i, j \in DOMAIN alive : MoveConstruct(i, j)
    \/ \E i, j \in DOMAIN alive : MoveAssign(i, j)
    \/ \E i \in DOMAIN alive : MoveAssignSelf(i)
    \/ \E i \in DOMAIN alive : Close(i)
    \/ \E i \in DOMAIN alive : Destroy(i)
    \/ \E i \in DOMAIN alive : CallSendWithSeq(i, FALSE, 1, -1, INT64_MIN)
    \/ SendNotOpen \/ SendTransmit \/ SendTransportError

SpecSender == InitSenderProcess /\ [][NextSender]_vars

\* objects of either build, constructed with one capacity or another, that
\* are moved, closed and destroyed and send one double at a time; the first
\* one has sent no frame or one
InitOwnership ==
    /\ ReceiverConstructed("Big", NumCallers)
    /\ InitSender({[M |-> 2, B |-> 1400]}, {0, 1})
    /\ hostLE
    /\ codec = NoCodec

NextOwnership ==
    \/ \E i \in DOMAIN alive, M \in {1, 2} : Construct(i, [M |-> M, B |-> 1400], TRUE)
    \/ \E i \in DOMAIN alive : ConstructThrows(i)
    \/ \E i, j \in DOMAIN alive : MoveConstruct(i, j)
    \/ \E i, j \in DOMAIN alive : MoveAssign(i, j)
    \/ \E i \in DOMAIN alive : MoveAssignSelf(i)
    \/ \E i \in DOMAIN alive : Close(i)
    \/ \E i \in DOMAIN alive : Destroy(i)
    \/ \E i \in DOMAIN alive : CallSendWithSeq(i, FALSE, 1, -1, INT64_MIN)
    \/ SendNotOpen \/ SendTransmit \/ SendTransportError

SpecOwnership == InitOwnership /\ [][NextOwnership]_vars

\* while one object exists, others are constructed address by address, in
\* connected mode or not, with a local port or none, and destroyed
InitResolve ==
    /\ ReceiverConstructed("Big", NumCallers)
    /\ InitSender({[M |-> 2, B |-> 1400]}, {0})
    /\ hostLE /\ now = 0
    /\ codec = NoCodec

NextResolve ==
    \/ \E i \in DOMAIN alive, connectUdp \in BOOLEAN, bindLocal \in BOOLEAN :
            CtorEnter(i, [M |-> 2, B |-> 1400], connectUdp, bindLocal)
    \/ CtorGetaddrinfoFails
    \/ \E n \in 1..MaxCandidates : CtorResolved(n)
    \/ CtorSocketFails \/ CtorSocket
    \/ CtorBindFails \/ CtorBound
    \/ CtorConnectFails \/ CtorConnected
    \/ CtorKeep \/ CtorNoUsableAddress
    \/ \E i \in DOMAIN alive : Destroy(i)

SpecResolve == InitResolve /\ [][NextResolve]_vars

\* one object, constructed with the default payload limit or with a limit
\* and a maxDoubles that leave a capacity above 65535, sends 1, 2, 65536 or
\* 65537 doubles
BigCtorArgs == {[M |-> 1000, B |-> 1400], [M |-> 70000, B |-> 600000]}

InitBigFrames ==
    /\ ReceiverConstructed("Big", NumCallers)
    /\ InitSender(BigCtorArgs, {0})
    /\ codec = NoCodec

NextBigFrames ==
    \/ Tick
    \/ Close(1)
    \/ \E count \in {1, 2, 65536, 65537}, ts \in TimestampArgs :
            CallSendWithSeq(1, FALSE, count, 7, ts)
    \/ SendTooMany \/ SendNotOpen \/ SendTransmit \/ SendTransportError

SpecBigFrames == InitBigFrames /\ [][NextBigFrames]_vars

\* an object of the build for POSIX, constructed while the clock reads below
\* zero or zero, is used with sendAutoSeq and sendWithSeq and moved while the
\* clock advances
InitTimestamps ==
    /\ ReceiverConstructed("Big", NumCallers)
    /\ InitSender({[M |-> 2, B |-> 1400]}, {0})
    /\ ~win32
    /\ codec = NoCodec

NextTimestamps ==
    \/ Tick
    \/ \E i, j \in DOMAIN alive : MoveConstruct(i, j)
    \/ \E i, j \in DOMAIN alive : MoveAssign(i, j)
    \/ \E i \in DOMAIN alive, ts \in TimestampArgs : CallSendWithSeq(i, FALSE, 1, -1, ts)
    \/ \E i \in DOMAIN alive : CallSendAutoSeq(i, FALSE, 1)
    \/ SendNotOpen \/ SendTransmit \/ SendTransportError

SpecTimestamps == InitTimestamps /\ [][NextTimestamps]_vars

\* an object that has sent s0 frames is used with sendAutoSeq, moved and
\* closed; s0 is 0 or close to INT32_MAX
InitAutoSeq ==
    /\ ReceiverConstructed("Big", NumCallers)
    /\ InitSender({[M |-> 2, B |-> 1400]}, {0, INT32_MAX - MaxSeq})
    /\ codec = NoCodec

NextAutoSeq ==
    \/ \E i, j \in DOMAIN alive : MoveConstruct(i, j)
    \/ \E i, j \in DOMAIN alive : MoveAssign(i, j)
    \/ \E i \in DOMAIN alive : Close(i)
    \/ \E i \in DOMAIN alive, dataNull \in BOOLEAN, count \in {0, 1, 3} :
            CallSendAutoSeq(i, dataNull, count)
    \/ \E i \in DOMAIN alive, dataNull \in BOOLEAN, count \in {0, 1, 3} :
            CallSendAutoSeqWraps(i, dataNull, count)
    \/ \E i \in DOMAIN alive : CallSendAutoSeqTraps(i)
    \/ SendNullData \/ SendNothing \/ SendTooMany \/ SendNotOpen
    \/ SendTransmit \/ SendTransportError

SpecAutoSeq == InitAutoSeq /\ [][NextAutoSeq]_vars

\* one object that has sent no frame, or all but the last three sequence
\* numbers below the overflow, is used with sendAutoSeq and sendWithSeq and
\* closed
InitAccounting ==
    /\ ReceiverConstructed("Big", NumCallers)
    /\ InitSender({[M |-> 2, B |-> 1400]}, {0, INT32_MAX - MaxSeq - 1})
    /\ codec = NoCodec

NextAccounting ==
    \/ Close(1)
    \/ \E dataNull \in BOOLEAN, count \in {0, 1, 3} :
            CallSendAutoSeq(1, dataNull, count)
    \/ \E dataNull \in BOOLEAN, count \in {0, 1, 3} :
            CallSendAutoSeqWraps(1, dataNull, count)
    \/ CallSendAutoSeqTraps(1)
    \/ \E dataNull \in BOOLEAN, count \in {0, 1, 3} :
            CallSendWithSeq(1, dataNull, count, 7, INT64_MIN)
    \/ SendNullData \/ SendNothing \/ SendTooMany \/ SendNotOpen
    \/ SendTransmit \/ SendTransportError

SpecAccounting == InitAccounting /\ [][NextAccounting]_vars

\* one object, constructed with every choice of maxDoubles and
\* maxPayloadBytes, and every kind of argument to sendWithSeq
InitSendArgs ==
    /\ ReceiverConstructed("Big", NumCallers)
    /\ InitSender(CtorArgs, {0})
    /\ codec = NoCodec

NextSendArgs ==
    \/ \E a \in CtorArgs, connectUdp \in BOOLEAN : Construct(1, a, connectUdp)
    \/ Close(1) \/ Destroy(1)
    \/ \E dataNull \in BOOLEAN, count \in CountArgs(maxDoubles_[1]),
          ts \in TimestampArgs :
            CallSendWithSeq(1, dataNull, count, 7, ts)
    \/ \E dataNull \in BOOLEAN, count \in CountArgs(maxDoubles_[1]) :
            CallSendAutoSeq(1, dataNull, count)
    \/ SendNullData \/ SendNothing \/ SendTooMany \/ SendNotOpen
    \/ SendTransmit \/ SendTransportError

SpecSendArgs == InitSendArgs /\ [][NextSendArgs]_vars

\* one object sends one or two doubles; send/sendto takes the whole frame,
\* part of it, or fails
InitTransport ==
    /\ ReceiverConstructed("Big", NumCallers)
    /\ InitSender({[M |-> 2, B |-> 1400]}, {0})
    /\ codec = NoCodec

NextTransport ==
    \/ Tick
    \/ Close(1)
    \/ \E count \in {1, 2}, ts \in TimestampArgs : CallSendWithSeq(1, FALSE, count, 7, ts)
    \/ \E count \in {1, 2} : CallSendAutoSeq(1, FALSE, count)
    \/ SendNotOpen \/ SendTransmit \/ SendShortWrite \/ SendTransportError

SpecTransport == InitTransport /\ [][NextTransport]_vars

InitCodecOnly ==
    /\ ReceiverConstructed("Big", NumCallers)
    /\ NoSender /\ InitCodec

SpecCodec == InitCodecOnly /\ [][NextCodec]_vars

\* frames packed big-endian, as the Sender packs them, reach a Receiver
\* configured little-endian
InitCross ==
    /\ ReceiverConstructed("Little", NumCallers)
    /\ NoSender /\ InitCodec
    /\ codec.e = "Big"

NextCross == CodecEncode \/ CodecDecodeAs("Little")

SpecCross == InitCross /\ [][NextCross]_vars

(***************************************************************************)
(* Properties of the Receiver                                              *)
(***************************************************************************)
\* run() is between two datagrams: nothing received waits to be stored
Settled == rpc \in {"while", "recv"}

\* C1 (latest wins): when the running Receiver has finished with every
\* datagram it was handed, a getLatest call that returns hands out the frame
\* of the well-formed datagram recvfrom returned last, whatever the sequence
\* numbers of the frames stored before it.
LatestWins ==
    [][\A c \in DOMAIN cpc :
          (/\ cpc[c] = "cp_data" /\ cpc'[c] = "idle"
           /\ running_ /\ Settled /\ lastValid # <<>> /\ ~stopAfter)
          => (ret'[c] = "true" /\ out'[c] = SentFrame(lastValid, endian_))]_vars

\* a call that reads sequence 3 into a Packet that held the frame with
\* sequence 9 from an earlier call: 9 was delivered, then 3
LatestWinsWitness ==
    \E c \in DOMAIN cpc :
        /\ cpc[c] = "cp_data"
        /\ out[c].data = Frame9.data
        /\ out[c].seq = 3
        /\ lastValid = Wire(Frame3, endian_)
        /\ running_ /\ Settled /\ ~stopAfter

\* C2 (no torn reads): every Packet a getLatest call hands out is, member
\* for member, the Packet run() stored last; the flag is set only once a
\* Packet has been stored, and outside run()'s critical section latest_ is
\* that Packet.
NoTornReads ==
    [][/\ hasData_ => lastPublished # <<>>
       /\ (hasData_ /\ rpc # "mv_data") => latest_ = lastPublished
       /\ \A c \in DOMAIN cpc :
             (cpc[c] = "cp_data" /\ cpc'[c] = "idle")
             => (ret'[c] = "true" /\ out'[c] = lastPublished)]_vars

\* one thread is in the middle of its copy while run() waits for the mutex
\* with a different frame, and another thread has already got a frame
NoTornReadsWitness ==
    \E c, c2 \in DOMAIN cpc :
        /\ c # c2
        /\ cpc[c] = "cp_data" /\ dataMutex_ = ByCaller(c)
        /\ rpc = "lock" /\ pkt # latest_
        /\ ret[c2] = "true" /\ out[c2] # latest_

\* C3: getLatest returns false, with out untouched, exactly while run() has
\* stored no Packet since construction; afterwards it returns true with the
\* stored Packet. hasData_ is never cleared, not by stop() nor by start().
GetLatestFalseIffNothingStored ==
    [][/\ hasData_ <=> lastPublished # <<>>
       /\ hasData_ => hasData_'
       /\ \A c \in DOMAIN cpc :
             /\ (ret'[c] = "false" /\ ret[c] # "false")
                => (lastPublished = <<>> /\ out'[c] = out[c])
             /\ (cpc[c] = "cp_data" /\ cpc'[c] = "idle")
                => (ret'[c] = "true" /\ lastPublished # <<>> /\ out'[c] = latest_)
             /\ (ret'[c] = "true" /\ ret[c] # "true") => lastPublished # <<>>]_vars

\* a call finds the flag set after stop() and a second start(), while no
\* datagram has been received since
GetLatestFalseIffNothingStoredWitness ==
    \E c \in DOMAIN cpc :
        /\ cpc[c] = "cp_data"
        /\ running_ /\ stopAfter /\ Settled
        /\ ret[c] = "false"

\* bytes 0..3, 4..5 and 6..7 of a datagram as the peer must have written them
MagicBytes(e) == IF e = "Big" THEN <<85, 68, 80, 68>> ELSE <<68, 80, 68, 85>>
VersionBytes(e) == IF e = "Big" THEN <<0, 1>> ELSE <<1, 0>>
DeclaredCount(d, e) == IF e = "Big" THEN d[7] * 256 + d[8] ELSE d[8] * 256 + d[7]

\* the datagram must not be stored: (a) short, (b) magic, (c) version, (d) truncated
Gated(d, e) ==
    \/ Len(d) < 20
    \/ SubSeq(d, 1, 4) # MagicBytes(e)
    \/ SubSeq(d, 5, 6) # VersionBytes(e)
    \/ DeclaredCount(d, e) > 0 /\ Len(d) < 20 + DeclaredCount(d, e) * 8

\* C4: a malformed datagram is dropped by run() itself: the step that
\* disposes of it leaves latest_, hasData_ and every caller's Packet and
\* result as they were, and run() goes on to its next iteration.
MalformedDropped ==
    [][(/\ rpc = "chk" /\ rpc' # rpc
        /\ running_
        /\ rx.received # SOCKET_ERROR
        /\ rx.buf \in Malformed(endian_))
       => (/\ rpc' = "while" /\ running_'
           /\ latest_' = latest_ /\ hasData_' = hasData_
           /\ lastPublished' = lastPublished
           /\ out' = out /\ ret' = ret)]_vars

\* run() examines a truncated datagram while a frame is stored
MalformedDroppedWitness ==
    /\ rpc = "chk" /\ running_
    /\ rx.buf = WireTruncated(endian_)
    /\ hasData_ /\ latest_ = Frame5Again

\* C5: no Packet is ever stored from a datagram that is shorter than 20
\* bytes, or whose magic or version is wrong in the configured endianness,
\* or that declares more doubles than it holds.
GatedNeverStored ==
    pubDgram # <<>> => ~Gated(pubDgram, endian_)

\* a little-endian Receiver examines a datagram that is well formed but for
\* its version
GatedNeverStoredWitness ==
    /\ rpc = "chk" /\ running_
    /\ endian_ = "Little"
    /\ rx.buf = WireBadVersion(endian_)
    /\ Gated(rx.buf, endian_)
    /\ ~Gated(Wire(Frame9, endian_), endian_)

(***************************************************************************)
(* Properties of the codec and of the Sender                               *)
(***************************************************************************)
\* C6 (codec round trip): for both endiannesses, the bytes encode produces
\* for a frame are accepted by the decoder of the same endianness and decode
\* to the same sequence, timestamp, count and payload, bit for bit; the
\* encoding is 20 + 8 * count bytes long.
CodecRoundTrip ==
    codec.stage = "done" =>
        /\ codec.ok
        /\ Len(codec.bytes) = 20 + 8 * Len(codec.frame.data)
        /\ codec.out.seq = codec.frame.seq
        /\ codec.out.timestampNanos = codec.frame.timestampNanos
        /\ Len(codec.out.data) = Len(codec.frame.data)
        /\ codec.out.data = codec.frame.data

\* a big-endian frame packed on a little-endian host, with sequence -2^31,
\* timestamp -1 and the payload NaN, -0.0, has been decoded
CodecRoundTripWitness ==
    /\ codec.stage = "done"
    /\ codec.e = "Big" /\ hostLE
    /\ codec.frame.seq = INT32_MIN
    /\ codec.frame.timestampNanos = Int64(-1)
    /\ codec.frame.data = <<Dbl_NaN, Dbl_NegZero>>
    /\ codec.out.data = <<Dbl_NaN, Dbl_NegZero>>

\* C7 (sequence monotonicity): every sendAutoSeq call sends with the
\* counter's value and leaves the counter one higher, 2^31-1 being followed
\* by -2^31.
SequenceMonotonic ==
    [][\A i \in DOMAIN seq_ :
          (/\ spc = "idle" /\ call' # call
           /\ call'.fn = "sendAutoSeq" /\ call'.obj = i)
          => /\ call'.result = "pending"
             /\ call'.seq = seq_[i]
             /\ seq_'[i] = IF seq_[i] = INT32_MAX THEN INT32_MIN
                           ELSE seq_[i] + 1]_vars

\* timestamp_nanos of the frame the last call transmitted
EmittedTimestamp == read64(call.wire, 12, "Big")

\* C8 as stated (timestamp non-negativity): every transmitted frame, with a
\* defaulted or a caller-supplied timestamp, carries timestamp_nanos >= 0.
TimestampNonNegative ==
    call.wire # <<>> => ~IsNegative64(EmittedTimestamp)

\* C8 as amended: every frame transmitted for a call that left the timestamp
\* to its default carries timestamp_nanos >= 0, before and after moves; a
\* timestamp the caller supplies is transmitted as it is.
DefaultedTimestampNonNegative ==
    call.wire # <<>> =>
        IF call.timestampNanos = INT64_MIN
        THEN ~IsNegative64(EmittedTimestamp)
        ELSE EmittedTimestamp = call.timestampNanos

\* an object that got its state by a move has transmitted a frame with the
\* default timestamp while the clock's reading is negative
DefaultedTimestampNonNegativeWitness ==
    /\ call.wire # <<>>
    /\ call.timestampNanos = INT64_MIN
    /\ movedTo = call.obj
    /\ now < 0
    /\ tsOffset_[call.obj] > 0

\* the payload budget in force for maxPayloadBytes = b
Budget(b) == IF b > 0 THEN b ELSE 1400

\* the last call has returned or thrown
Completed == call.result \in {"returned", "invalid_argument", "runtime_error"}

\* C9 (capacity clamp): the capacity of an object constructed with maxDoubles
\* M and payload budget B is the largest c >= 0 with c <= M and
\* 20 + 8c <= B (172 for M = 1000, B = 1400); a send of more than capacity
\* values throws invalid_argument and transmits nothing; a send of exactly
\* capacity values is not refused as an argument error, and the frame it
\* transmits holds capacity values.
CapacityClamp ==
    /\ \A i \in DOMAIN alive :
          alive[i] =>
            LET c == maxDoubles_[i]
                M == cfg[i].M
                B == Budget(cfg[i].B)
            IN  /\ c >= 0 /\ c <= Max(0, M)
                /\ c > 0 => 20 + 8 * c <= B
                /\ c < M => 20 + 8 * (c + 1) > B
                /\ (M = 1000 /\ B = 1400) => c = 172
    /\ (Completed /\ ~call.dataNull /\ call.count > call.cap)
          => (call.result = "invalid_argument" /\ call.wire = <<>>)
    /\ (Completed /\ ~call.dataNull /\ call.count = call.cap)
          => /\ call.result # "invalid_argument"
             /\ (call.result = "returned" /\ call.cap > 0)
                   => (/\ Len(call.wire) = 20 + 8 * call.cap
                       /\ call.value = 20 + 8 * call.cap
                       /\ read16(call.wire, 6, "Big") = call.cap)

\* the object constructed with M = 1000, B = 1400 has refused 173 values
CapacityClampWitness ==
    /\ alive[1] /\ cfg[1] = [M |-> 1000, B |-> 1400]
    /\ call.obj = 1 /\ ~call.dataNull
    /\ call.count = 173 /\ call.cap = 172
    /\ call.result = "invalid_argument"

TransportErrors ==
    /\ call.os \in {"failed", "short"}
          => (call.result = "runtime_error" /\ call.what = "send/sendto failed")
    /\ (call.result = "returned" /\ ~call.dataNull /\ call.count > 0)
          => (call.os = "full" /\ call.value = 20 + call.count * 8)

\* a send call with valid arguments (non-null data, 0 < count <= capacity)
\* on object i returns or throws in this step
ValidSendCompletes(i) ==
    /\ spc = "in_send" /\ spc' = "idle"
    /\ call.obj = i
    /\ ~call.dataNull /\ call.count > 0 /\ call.count <= maxDoubles_[i]

FailsNotOpen ==
    /\ call'.result = "runtime_error"
    /\ call'.what = "socket not open"
    /\ call'.wire = <<>>
    /\ call'.os = "not called"

\* C12 (closed Sender): once close() has been called on a Sender its socket
\* stays closed for the rest of the instance's life, and every later send
\* with valid arguments fails with "socket not open", nothing transmitted.
ClosedStaysClosed ==
    /\ [](\A i \in DOMAIN alive :
             (alive[i] /\ closed[i] # "no") => ~isOpen_(sock_[i]))
    /\ [][\A i \in DOMAIN alive :
             (closed[i] # "no" /\ ValidSendCompletes(i)) => FailsNotOpen]_vars

\* C12, amended: the same, as long as the instance has not since been the
\* destination of a move-assignment from a Sender that held an open socket.
ClosedStaysClosedUntilAssigned ==
    /\ [](\A i \in DOMAIN alive :
             (alive[i] /\ closed[i] = "closed") => ~isOpen_(sock_[i]))
    /\ [][\A i \in DOMAIN alive :
             (closed[i] = "closed" /\ ValidSendCompletes(i)) => FailsNotOpen]_vars

\* close() was called on object 1 and a valid send on it has then failed,
\* while object 2 holds an open socket
ClosedStaysClosedWitness ==
    /\ closed[1] = "closed"
    /\ call.obj = 1 /\ call.count = 1 /\ spc = "idle"
    /\ call.result = "runtime_error" /\ call.what = "socket not open"
    /\ sock_[2] # INVALID_SOCKET

\* a call of stop() returns in this step: at once when the receiver is not
\* running, after the join otherwise
StopReturns ==
    \/ StopNotRunning
    \/ StopJoin

\* stop() would change a member, a socket or the thread
StopChangesSomething ==
    \/ ENABLED (StopNotRunning /\ vars' # vars)
    \/ ENABLED StopSignal

\* C13 (stop() is idempotent cleanup): whenever a call of stop() returns,
\* in whatever state it was made, isRunning() is false, sockfd_ is
\* INVALID_SOCKET and the handle it held is closed, the thread has finished,
\* and a stop() called next changes nothing.
StopIdempotent ==
    [][StopReturns =>
          /\ ~running_'
          /\ sockfd_' = INVALID_SOCKET
          /\ sockfd_ \notin openSocks'
          /\ boundSock' = INVALID_SOCKET
          /\ rpc' = "none"
          /\ mpc' = "idle"
          /\ ~StopChangesSomething']_vars

\* stop() has returned on a running receiver whose loop had published
StopIdempotentWitness ==
    /\ mpc = "idle" /\ ~running_ /\ rpc = "none"
    /\ sockfd_ = INVALID_SOCKET /\ ~wsaInitialized_
    /\ stopAfter /\ hasData_

\* C14 (no operation blocks for ever): under fair scheduling a stop() that
\* has signalled the running loop returns, whatever the loop was doing; a
\* getLatest that holds the mutex returns, and the mutex, whoever holds it,
\* is released, so that a thread waiting for it can go on.
NothingBlocksForever ==
    /\ (mpc # "idle") ~> (mpc = "idle")
    /\ \A c \in 1..NumCallers : (cpc[c] # "idle") ~> (cpc[c] = "idle")
    /\ (dataMutex_ # Unlocked) ~> (dataMutex_ = Unlocked)

\* stop() waits for the thread, which holds the mutex and is publishing
NothingBlocksForeverWitness ==
    /\ mpc = "stop_join"
    /\ rpc = "mv_data"
    /\ dataMutex_ = ByLoop

\* start() returns false in this step: socket() failed, or inet_pton() or
\* bind() failed
StartFails == StartSocketFail \/ StartBindFail

\* C15 (start() failure): when start() returns false because socket(),
\* inet_pton() or bind() failed, no thread is launched, isRunning() stays
\* false, latest_ and hasData_ are as before (getLatest returns what it
\* returned before), and the caller can call start() again or stop().
StartFailureLeavesReceiverIdle ==
    [][StartFails =>
          /\ ~running_'
          /\ rpc = "none" /\ rpc' = "none"
          /\ latest_' = latest_ /\ hasData_' = hasData_
          /\ mpc' = "idle"
          /\ (ENABLED Start)' /\ (ENABLED StopNotRunning)']_vars

\* start() has failed at bind on a receiver that holds a Packet from an
\* earlier run
StartFailureLeavesReceiverIdleWitness ==
    /\ mpc = "idle" /\ ~running_ /\ rpc = "none"
    /\ sockfd_ # INVALID_SOCKET
    /\ hasData_ /\ latest_ = Frame9

\* C16 (move-only ownership of the Sender): a move-construction or
\* move-assignment gives the destination the source's socket, capacity,
\* sequence counter and timestamp offset and leaves the source closed, so that
\* a send on it fails with "socket not open"; in every state no two objects
\* hold the same open handle; the socket the destination of a move-assignment
\* held is closed; and no handle is closed that is not open.
MoveOnlyOwnership ==
    /\ [][\A dst, src \in DOMAIN alive :
            (MoveConstruct(dst, src) \/ MoveAssign(dst, src)) =>
                /\ sock_'[dst] = sock_[src]
                /\ maxDoubles_'[dst] = maxDoubles_[src]
                /\ seq_'[dst] = seq_[src]
                /\ tsOffset_'[dst] = tsOffset_[src]
                /\ ~isOpen_(sock_'[src])
                /\ isOpen_(sock_[dst]) => sock_[dst] \notin sOpen']_vars
    /\ [][\A i \in DOMAIN alive :
            (ValidSendCompletes(i) /\ ~isOpen_(sock_[i])) => FailsNotOpen]_vars
    /\ [](\A i, j \in DOMAIN alive :
            (i # j /\ isOpen_(sock_[i])) => sock_[i] # sock_[j])
    /\ [](~closedTwice)

\* C17 (cross-endianness non-interop): a frame the Sender packs big-endian
\* never comes out of a Receiver configured little-endian as the frame that
\* was sent: its magic reads 0x44504455 there, so the datagram fails the
\* magic check and nothing is published.
CrossEndianRejected ==
    (codec.stage = "done" /\ codec.e = "Big" /\ codec.re = "Little") =>
        /\ codec.bytes = PackFrame(hostLE, Len(codec.frame.data), codec.frame.seq,
                                   codec.frame.timestampNanos, codec.frame.data)
        /\ read32(codec.bytes, 0, "Little") # MAGIC_UDPD
        /\ ~codec.ok
        /\ codec.out = DefaultPacket

\* the frame with sequence 0, timestamp 0 and the payload -0.0, 1.5 was
\* packed big-endian and refused by the little-endian Receiver
CrossEndianRejectedWitness ==
    /\ codec.stage = "done" /\ codec.e = "Big" /\ codec.re = "Little"
    /\ codec.frame.seq = 0 /\ codec.frame.timestampNanos = Int64(0)
    /\ codec.frame.data = <<Dbl_NegZero, Dbl_1_5>>
    /\ ~codec.ok

\* C18 (the receive loop never exits on a transient condition): run()
\* returns only when running_ is false; while running_ holds, a would-block
\* result, a socket error or a malformed datagram sends the loop back to the
\* while, and under fair scheduling the loop calls recvfrom again unless
\* stop() intervenes; a well-formed datagram recvfrom has returned is
\* published unless stop() intervenes.
LoopKeepsReceiving ==
    /\ [][(rpc # "done" /\ rpc' = "done") => ~running_]_vars
    /\ [][(/\ rpc = "chk" /\ rpc' # rpc /\ running_
           /\ \/ rx.received = SOCKET_ERROR
              \/ ~Valid(rx.buf, rx.received, endian_)) => rpc' = "while"]_vars
    /\ (running_ /\ rpc \in {"while", "chk", "lock", "mv_data"})
          ~> (rpc = "recv" \/ ~running_)
    /\ \A d \in WellFormed("Big") :
          (running_ /\ rpc = "chk" /\ rx.buf = d)
             ~> (\/ rx = NoRx /\ pubDgram = d /\ latest_ = SentFrame(d, endian_)
                 \/ ~running_)

\* recvfrom has failed with a socket error on the running receiver, after a
\* frame had been published
LoopKeepsReceivingWitness ==
    /\ running_ /\ mpc = "idle"
    /\ rpc = "chk" /\ rx.err = "other"
    /\ hasData_ /\ pubDgram = Wire(Frame5, endian_)

\* the addresses tried so far have all failed, each tried once, in the
\* resolver's order
AllFailedInOrder(log) ==
    \A j \in 1..Len(log) :
        /\ log[j].cand = j
        /\ log[j].outcome \in {"socket failed", "bind failed", "connect failed"}

\* the constructor has returned: the last address tried is the one kept, and
\* the object holds the socket made for it and its address
KeptFirstUsable ==
    LET k == Len(ctor.log)
    IN  /\ k >= 1 /\ k <= ctor.n
        /\ ctor.log[k] = [cand |-> k, outcome |-> "kept"]
        /\ AllFailedInOrder(SubSeq(ctor.log, 1, k - 1))
        /\ alive[ctor.obj]
        /\ isOpen_(sock_[ctor.obj])
        /\ sock_[ctor.obj] \notin ctor.before
        /\ sOpen = ctor.before \cup {sock_[ctor.obj]}
        /\ destAddr_[ctor.obj] = k

\* the constructor has thrown: every address was tried and failed, and no
\* socket is left open
ThrewNoUsableAddress ==
    /\ Len(ctor.log) = ctor.n
    /\ AllFailedInOrder(ctor.log)
    /\ ~alive[ctor.obj]
    /\ ~isOpen_(sock_[ctor.obj])
    /\ sOpen = ctor.before

\* C19 (Sender address resolution): the addresses are tried in the
\* resolver's order; the Sender keeps the socket and the address of the first
\* one for which socket(), the local bind if asked for, and connect in
\* connected mode all succeed, and tries no later one; the socket of each
\* address that failed at bind or connect is closed; when every address fails
\* the constructor throws "Failed to create usable UDP socket ..." with no
\* socket left open.
FirstUsableAddressKept ==
    /\ [](spc = "in_ctor" =>
            /\ AllFailedInOrder(ctor.log)
            /\ sOpen \ ctor.before \subseteq {ctor.s}
            /\ ctor.stage = "exhausted" <=> Len(ctor.log) = ctor.n /\ ctor.n > 0)
    /\ [][(spc = "in_ctor" /\ spc' = "idle") =>
            /\ ctor.stage = "keep" <=> ctor'.result = "constructed"
            /\ ctor'.result = "constructed" => KeptFirstUsable'
            /\ ctor.stage = "exhausted" <=>
                  ctor'.result = "Failed to create usable UDP socket for any resolved address"
            /\ ctor.stage = "exhausted" => ThrewNoUsableAddress']_vars

\* in connected mode with a local port, the first address failed at bind, the
\* second was kept
FirstUsableAddressKeptWitness ==
    /\ ctor.stage = "done" /\ ctor.result = "constructed"
    /\ ctor.bindLocal /\ connect_[ctor.obj]
    /\ ctor.log = <<[cand |-> 1, outcome |-> "bind failed"], [cand |-> 2, outcome |-> "kept"]>>
    /\ alive[ctor.obj] /\ sock_[ctor.obj] \in sOpen /\ destAddr_[ctor.obj] = 2

\* C20 (emitted frame size and count): for every send of n values,
\* 0 < n <= capacity, that hands a datagram to the socket, the count field
\* of the header is n, the datagram is 20 + n * 8 bytes long, and that is
\* within the payload limit the object was constructed with, also when the
\* capacity is above 65535.
EmittedSizeAndCount ==
    (call.result = "returned" /\ call.os = "full") =>
        /\ call.wire[7] * 256 + call.wire[8] = call.count
        /\ Len(call.wire) = Sender_HEADER_BYTES + call.count * 8
        /\ Len(call.wire) <= Budget(cfg[call.obj].B)

\* the value after s of a 32-bit counter
Succ32(s) == IF s = INT32_MAX THEN INT32_MIN ELSE s + 1

\* a call of the sender returns or throws
SendCompletes == spc = "in_send" /\ spc' = "idle"

\* C21 (sequence counter accounting): every sendAutoSeq call takes the
\* counter's value as its sequence number and leaves the counter one higher;
\* the counter stays there when the call returns or throws, whatever the
\* outcome (frame sent, 0 for an empty array, null data, count above the
\* capacity, socket not open, transport error); a sendWithSeq call never
\* changes the counter.  A failed sendAutoSeq call therefore uses up its
\* sequence number.
SequenceAccounting ==
    [][/\ (/\ spc = "idle" /\ spc' = "in_send" /\ call'.fn = "sendAutoSeq")
          => /\ call'.seq = seq_[call'.obj]
             /\ seq_' = [seq_ EXCEPT ![call'.obj] = Succ32(call'.seq)]
       /\ (/\ spc = "idle" /\ spc' = "in_send" /\ call'.fn = "sendWithSeq")
          => seq_' = seq_
       /\ SendCompletes
          => /\ seq_' = seq_
             /\ call.fn = "sendAutoSeq"
                => seq_'[call.obj] = Succ32(call.seq)]_vars

\* the second sendAutoSeq call on an object has thrown on the closed socket
\* without a frame, and the counter is one past the sequence number of the
\* failed call
SequenceAccountingWitness ==
    /\ call.fn = "sendAutoSeq"
    /\ call.result = "runtime_error" /\ call.what = "socket not open"
    /\ call.wire = <<>>
    /\ call.seq = INT32_MAX - MaxSeq
    /\ seq_[call.obj] = call.seq + 1

\* no stop() call is in progress and the receiver is not running: the state
\* between the return of stop() and the next successful start()
Stopped == mpc = "idle" /\ ~running_

\* C22 (no publication after stop): from the return of stop() to the next
\* successful start() no thread executes run(), latest_ and hasData_ are
\* not written, and every getLatest call that returns true in that interval
\* hands out the same Packet, the stored one; also when stop() was called
\* while the loop was receiving or decoding a valid datagram.
NoPublicationAfterStop ==
    /\ [](Stopped => rpc = "none")
    /\ [][Stopped => /\ latest_' = latest_
                     /\ hasData_' = hasData_
                     /\ \A c \in 1..NumCallers :
                           (cpc[c] = "cp_data" /\ cpc'[c] = "idle")
                           => out'[c] = latest_]_vars

\* stop() has returned after it was called while the loop held a valid
\* datagram that it then did not store; getLatest, called afterwards, has
\* returned the Packet stored before
NoPublicationAfterStopWitness ==
    /\ Stopped /\ rpc = "none"
    /\ lastValid # <<>> /\ pubDgram # <<>> /\ pubDgram # lastValid
    /\ stopAfter
    /\ latest_ = Decode(pubDgram, endian_)
    /\ cpc[1] = "idle" /\ ret[1] = "true" /\ out[1] = latest_

\* C23 (socket release across start/stop): when a stop() call returns, no
\* socket that a start() call of this receiver created is open, whatever
\* start() and stop() calls came before, a start() that failed at
\* inet_pton() or bind() and was followed by another start() included.
SocketsReleasedByStop ==
    [][(StopNotRunning \/ StopJoin) => openSocks' = {}]_vars

\* the loop's recvfrom(sockfd_, ...) call is made and returns
LoopReceives == rpc = "recv" /\ rpc' = "chk"

\* C24 (no receive on a closed handle): in every interleaving of stop() with
\* the loop, each recvfrom call of the loop is made on a handle that is
\* open, the one this receiver's start() created and bound.
ReceiveOnOpenHandleOnly ==
    [][LoopReceives => /\ isOpen_(sockfd_)
                       /\ sockfd_ \in openSocks
                       /\ sockfd_ = boundSock]_vars

\* a start() call creates a socket
SocketCreated == openSocks' # openSocks /\ openSocks \subseteq openSocks'

\* a start() call sets running_ and launches the thread
LoopLaunched == ~running_ /\ running_'

\* C25 (at most one receive loop): a thread executing run() is launched
\* only when none exists, the one launched before having been joined by
\* stop(); while the receiver is running a thread exists, a start() call
\* can only return at once, and no socket is created.
AtMostOneLoop ==
    /\ [][LoopLaunched => (rpc = "none" /\ rpc' = "while")]_vars
    /\ [][SocketCreated => (~running_ /\ rpc = "none")]_vars
    /\ [](running_ => rpc # "none")
    /\ []((running_ /\ mpc = "idle") =>
            /\ ENABLED StartAlreadyRunning
            /\ ~ENABLED (StartWsaFail \/ StartSocketFail \/ StartBindFail \/ StartOk))

\* start() has launched a loop on a receiver that had been started and
\* stopped before
AtMostOneLoopWitness ==
    /\ running_ /\ mpc = "idle"
    /\ rpc = "while"
    /\ stopAfter
    /\ openSocks = {sockfd_}

\* the datagram d is to be accepted: 20 bytes or more, magic and version as
\* the peer writes them in endianness e, and the declared payload present
Acceptable(d, e) ==
    /\ Len(d) >= 20
    /\ SubSeq(d, 1, 4) = MagicBytes(e)
    /\ SubSeq(d, 5, 6) = VersionBytes(e)
    /\ 20 + DeclaredCount(d, e) * 8 <= Len(d)

\* the i-th double of the payload of d, as its bit pattern
PayloadDouble(d, i, e) ==
    LET b == SubSeq(d, 13 + 8 * i, 20 + 8 * i)
    IN  IF e = "Big" THEN b ELSE Reverse(b)

\* the first c doubles of the payload of d, c being the count d declares
DeclaredPayload(d, e) ==
    [i \in 1..DeclaredCount(d, e) |-> PayloadDouble(d, i, e)]

====
